---- MODULE Spec2Model ----
\* A model of the TinkSES intake-and-relay engine (src/src/smtp-server.ts):
\* the session callbacks onAuth / onMailFrom / onRcptTo / onData handed to the
\* SMTP listener, and the asynchronous body of onData that parses a message,
\* groups its recipients by domain and delivers to one domain after the other.
\*
\* Strings that the code takes apart (addresses, domains) are sequences of
\* one-character strings; strings that it only compares or prints are TLA+
\* strings.  An optional value is a sequence of length 0 or 1.
EXTENDS Integers, Sequences, FiniteSets, TLC

VARIABLES
  conn,      \* per session: "none" | "open" | "closed" (the inbound connection)
  user,      \* per session: session.user, <<>> until onAuth succeeded
  envelope,  \* per session: session.envelope {mailFrom, rcptTo}
  pc,        \* per session: position of the onData handler
  h,         \* per session: the locals of the running onData handler
  cb,        \* per session: calls of onData's completion callback {count, err}
  attempts,  \* per session: history of the domain deliveries of this message
  last,      \* per session: history of the most recent policy callback
  authed,    \* per session: history of the credentials onAuth accepted
  probe,     \* one call of a pure function: {fn, done, <its arguments>, out}
  cli,       \* the process started by the command line: files, server, exit
  tests      \* one call of testSmtpConnections: sockets, timers, promises

vars == <<conn, user, envelope, pc, h, cb, attempts, last, authed, probe, cli, tests>>

----------------------------------------------------------------------------
\* Bounds of the model

\* most RCPT TO commands accepted into one envelope
MaxRcpt == 3

\* The sessions the listener can hold; Spec drives the sessions of Active.
SessionIds == {1, 2}
Active == {1}

----------------------------------------------------------------------------
\* Configuration (TinkSESConfig), read-only during a session

ConfigUsername == "user"
ConfigPassword == "password"
ConfigDomain == <<"e", "x">>
ConfigDkim == [privateKey |-> "KEY", selector |-> "default"]

\* What a client may present
Usernames == {"user", "root"}
Passwords == {"password", "guess"}

\* MAIL FROM arguments a client may send: the configured domain, the same
\* domain in another letter case, a foreign domain, the null sender, and an
\* address with two '@'.
SenderPool ==
  { <<"u", "@", "e", "x">>,
    <<"u", "@", "E", "x">>,
    <<"u", "@", "f">>,
    <<>>,
    <<"u", "@", "e", "x", "@", "f">> }

\* RCPT TO arguments a client may send: two addresses of one domain, the
\* same domain in another letter case, a domain of digits, a local part with a
\* comma, a domain that is a property name of Object.prototype, and a word
\* without '@'.
RcptPool ==
  { <<"x", "@", "f">>,
    <<"y", "@", "f">>,
    <<"x", "@", "F">>,
    <<"z", "@", "7">>,
    <<"a", ",", "b", "@", "f">>,
    <<"p", "@", "c", "o", "n", "s", "t", "r", "u", "c", "t", "o", "r">>,
    <<"z">> }

\* parsedMail.messageId: undefined (<<>>) without a Message-ID header
ParsedMessageIds == { <<>>, <<"<", "i", "@", "c", ">">> }

\* Date.now() in decimal, and Math.random().toString(36).substring(2)
Nows == { <<"1", "7">> }
Randoms == { <<"k", "3">> }

\* Messages of the errors simpleParser may reject with
ParseErrors == {"Invalid MIME structure", "Unexpected end of input"}

\* Error texts of a failing outbound transport
SendErrors == {"connect ECONNREFUSED"}

\* Answers of dns.resolveMx: a rejection (a failed query, or ENODATA for a
\* domain without MX records), or a non-empty list of records: one out of
\* priority order, and one with two records of equal priority.
MxError == <<>>
MxAnswers ==
  { MxError,
    <<[priority |-> 20, exchange |-> <<"m", "2">>],
      [priority |-> 10, exchange |-> <<"m", "1">>]>>,
    <<[priority |-> 10, exchange |-> <<"m", "1">>],
      [priority |-> 10, exchange |-> <<"m", "2">>]>> }

----------------------------------------------------------------------------
\* JavaScript helpers

\* The value `undefined`, where a string was expected; as a property key it
\* is the key "undefined".
Undefined == <<"undefined">>

UpperSeq == <<"A", "B", "C", "D", "E", "F", "G", "H", "I", "J", "K", "L", "M",
              "N", "O", "P", "Q", "R", "S", "T", "U", "V", "W", "X", "Y", "Z">>
LowerSeq == <<"a", "b", "c", "d", "e", "f", "g", "h", "i", "j", "k", "l", "m",
              "n", "o", "p", "q", "r", "s", "t", "u", "v", "w", "x", "y", "z">>

LowerOf(c) ==
  IF \E i \in 1..Len(UpperSeq) : UpperSeq[i] = c
  THEN LowerSeq[CHOOSE i \in 1..Len(UpperSeq) : UpperSeq[i] = c]
  ELSE c

\* String.prototype.toLowerCase
ToLowerCase(str) == [i \in 1..Len(str) |-> LowerOf(str[i])]

\* String.prototype.split(sep) for a one-character separator: the pieces
\* between the separators, always at least one piece.
RECURSIVE SplitFrom(_, _, _, _)
SplitFrom(str, sep, i, piece) ==
  IF i > Len(str) THEN <<piece>>
  ELSE IF str[i] = sep THEN <<piece>> \o SplitFrom(str, sep, i + 1, <<>>)
  ELSE SplitFrom(str, sep, i + 1, Append(piece, str[i]))

Split(str, sep) == SplitFrom(str, sep, 1, <<>>)

\* parts[i] of a JavaScript array: undefined beyond its end
At(parts, i) == IF i <= Len(parts) THEN parts[i] ELSE Undefined

\* Array.prototype.join(sep)
RECURSIVE Join(_, _)
Join(strs, sep) ==
  IF strs = <<>> THEN <<>>
  ELSE IF Len(strs) = 1 THEN strs[1]
  ELSE strs[1] \o sep \o Join(Tail(strs), sep)

\* leading and trailing blanks removed
RECURSIVE TrimLeft(_)
TrimLeft(str) ==
  IF str # <<>> /\ Head(str) = " " THEN TrimLeft(Tail(str)) ELSE str

RECURSIVE TrimRight(_)
TrimRight(str) ==
  IF str # <<>> /\ str[Len(str)] = " "
  THEN TrimRight(SubSeq(str, 1, Len(str) - 1)) ELSE str

Trim(str) == TrimRight(TrimLeft(str))

Contains(str, c) == \E i \in 1..Len(str) : str[i] = c

\* nodemailer's addressparser(str, {flatten: true}) on strings made of
\* letters, digits, '@', ',' and ' ': one entry per non-empty comma-separated
\* token; a token without '@' is a display name with an empty address.
RECURSIVE ParseTokens(_)
ParseTokens(tokens) ==
  IF tokens = <<>> THEN <<>>
  ELSE LET t == Trim(Head(tokens))
       IN  IF t = <<>> THEN ParseTokens(Tail(tokens))
           ELSE <<IF Contains(t, "@") THEN [address |-> t, name |-> <<>>]
                                       ELSE [address |-> <<>>, name |-> t]>>
                \o ParseTokens(Tail(tokens))

addressparser(str) == ParseTokens(Split(str, ","))


\* The own enumerable keys of an object in for-in order: keys that are array
\* indices (canonical decimal numbers below 2^32 - 1) in ascending numeric
\* order first, then the other keys in the order of their creation. Keys of
\* up to nine digits are decided here; the model has no longer digit keys.
DigitSeq == <<"0", "1", "2", "3", "4", "5", "6", "7", "8", "9">>
DigitSet == {DigitSeq[i] : i \in 1..Len(DigitSeq)}
DigitValue(c) == (CHOOSE i \in 1..Len(DigitSeq) : DigitSeq[i] = c) - 1

RECURSIVE NumVal(_)
NumVal(str) ==
  IF str = <<>> THEN 0
  ELSE NumVal(SubSeq(str, 1, Len(str) - 1)) * 10 + DigitValue(str[Len(str)])

IsArrayIndex(key) ==
  /\ key # <<>>
  /\ Len(key) <= 9
  /\ \A i \in 1..Len(key) : key[i] \in DigitSet
  /\ (Len(key) = 1 \/ key[1] # "0")

RECURSIVE SortIndexKeys(_)
SortIndexKeys(keys) ==
  IF keys = <<>> THEN <<>>
  ELSE LET m == CHOOSE i \in 1..Len(keys) :
                  \A j \in 1..Len(keys) : NumVal(keys[i]) <= NumVal(keys[j])
           isRest(k) == k # keys[m]
       IN  <<keys[m]>> \o SortIndexKeys(SelectSeq(keys, isRest))

ForInKeys(created) ==
  LET isIndex(k) == IsArrayIndex(k)
      isOther(k) == ~IsArrayIndex(k)
  IN  SortIndexKeys(SelectSeq(created, isIndex)) \o SelectSeq(created, isOther)

\* a sort that puts a record before the records of equal priority
RECURSIVE InsertByPriorityTiesFirst(_, _)
InsertByPriorityTiesFirst(sorted, r) ==
  IF sorted = <<>> THEN <<r>>
  ELSE IF r.priority <= Head(sorted).priority THEN <<r>> \o sorted
  ELSE <<Head(sorted)>> \o InsertByPriorityTiesFirst(Tail(sorted), r)

\* Array.prototype.sort((a, b) => a.priority - b.priority): a stable sort
RECURSIVE InsertByPriority(_, _)
InsertByPriority(sorted, r) ==
  IF sorted = <<>> THEN <<r>>
  ELSE IF r.priority < Head(sorted).priority THEN <<r>> \o sorted
  ELSE <<Head(sorted)>> \o InsertByPriority(Tail(sorted), r)

RECURSIVE SortByPriority(_)
SortByPriority(mx) ==
  IF mx = <<>> THEN <<>>
  ELSE InsertByPriority(SortByPriority(SubSeq(mx, 1, Len(mx) - 1)), mx[Len(mx)])

----------------------------------------------------------------------------
\* Session policy: the callbacks of SMTPServerOptions

NoError == <<>>

\* onAuth with || in place of &&
onAuthEitherMatches(username, password) ==
  IF username = ConfigUsername \/ password = ConfigPassword
  THEN [err |-> NoError, user |-> <<username>>]
  ELSE [err |-> <<[message |-> <<"Invalid username or password">>]>>, user |-> <<>>]

\* onAuth that checks the user name alone
onAuthUserOnly(username, password) ==
  IF username = ConfigUsername
  THEN [err |-> NoError, user |-> <<username>>]
  ELSE [err |-> <<[message |-> <<"Invalid username or password">>]>>, user |-> <<>>]

\* onAuth: the credential check
onAuth(username, password) ==
  IF username = ConfigUsername /\ password = ConfigPassword
  THEN [err |-> NoError, user |-> <<username>>]
  ELSE [err |-> <<[message |-> <<"Invalid username or password">>]>>, user |-> <<>>]

\* onMailFrom comparing the domains without regard to letter case
onMailFromIgnoreCase(address) ==
  LET domain == At(Split(address, "@"), 2)
  IN  IF ToLowerCase(domain) # ToLowerCase(ConfigDomain)
      THEN <<[message |-> <<"Sending from domain ", domain, " not allowed">>]>>
      ELSE NoError

\* onMailFrom that logs a foreign domain and accepts it all the same (the
\* return before callback(error) lost)
onMailFromLogOnly(address) == NoError

\* onMailFrom: const [, domain] = address.address.split('@')
onMailFrom(address) ==
  LET domain == At(Split(address, "@"), 2)
  IN  IF domain # ConfigDomain
      THEN <<[message |-> <<"Sending from domain ", domain, " not allowed">>]>>
      ELSE NoError

\* onRcptTo with the domain check of onMailFrom copied into it
onRcptToOwnDomain(address) ==
  IF At(Split(address, "@"), 2) # ConfigDomain
  THEN <<[message |-> <<"Recipient not allowed">>]>>
  ELSE NoError

\* onRcptTo
onRcptTo(address) == NoError

\* The listener (smtp-server's SMTPServer, built from the options) answers
\* MAIL FROM and RCPT TO with 501 "Bad address syntax", without calling the
\* callback, unless the argument is empty or has exactly one '@' with text on
\* both sides of it.
ListenerParsesAddress(address) ==
  \/ address = <<>>
  \/ LET parts == Split(address, "@")
     IN  Len(parts) = 2 /\ parts[1] # <<>> /\ parts[2] # <<>>

\* The listener stores an accepted RCPT TO address: it replaces an entry that
\* is equal up to letter case, and appends otherwise.
RECURSIVE StoreRcpt(_, _)
StoreRcpt(rcptTo, address) ==
  IF rcptTo = <<>> THEN <<address>>
  ELSE IF ToLowerCase(Head(rcptTo)) = ToLowerCase(address)
  THEN <<address>> \o Tail(rcptTo)
  ELSE <<Head(rcptTo)>> \o StoreRcpt(Tail(rcptTo), address)

NoCall == [name |-> "none", username |-> "", password |-> "", address |-> <<>>,
           err |-> NoError]

EmptyEnvelope == [mailFrom |-> <<>>, rcptTo |-> <<>>]

\* The listener accepts a connection and calls onConnect, which accepts.
Connect(s) ==
  /\ conn[s] = "none"
  /\ conn' = [conn EXCEPT ![s] = "open"]
  /\ last' = [last EXCEPT ![s] = [NoCall EXCEPT !.name = "onConnect"]]
  /\ UNCHANGED <<user, envelope, pc, h, cb, attempts, authed, probe, cli, tests>>

\* AUTH PLAIN / AUTH LOGIN: the listener calls onAuth once per attempt and
\* sets session.user from the callback's second argument.
Auth(s) ==
  /\ conn[s] = "open" /\ pc[s] = "idle"
  /\ user[s] = <<>>
  /\ \E username \in Usernames, password \in Passwords :
       LET r == onAuth(username, password)
       IN  /\ user' = [user EXCEPT ![s] = r.user]
           /\ authed' = [authed EXCEPT ![s] =
                           IF r.err = NoError
                           THEN <<[username |-> username, password |-> password]>>
                           ELSE @]
           /\ last' = [last EXCEPT ![s] =
                         [NoCall EXCEPT !.name = "onAuth", !.username = username,
                                        !.password = password, !.err = r.err]]
  /\ UNCHANGED <<conn, envelope, pc, h, cb, attempts, probe, cli, tests>>

\* MAIL FROM: authentication is required (authOptional is not set); the
\* listener calls onMailFrom and stores the address if it is accepted.
MailFrom(s) ==
  /\ conn[s] = "open" /\ pc[s] = "idle"
  /\ user[s] # <<>>
  /\ envelope[s].mailFrom = <<>>
  /\ \E address \in SenderPool :
       /\ ListenerParsesAddress(address)
       /\ LET err == onMailFrom(address)
          IN  /\ envelope' = [envelope EXCEPT ![s].mailFrom =
                                IF err = NoError THEN <<address>> ELSE @]
              /\ last' = [last EXCEPT ![s] =
                            [NoCall EXCEPT !.name = "onMailFrom",
                                           !.address = address, !.err = err]]
  /\ UNCHANGED <<conn, user, pc, h, cb, attempts, authed, probe, cli, tests>>

\* MAIL FROM or RCPT TO with an argument the listener cannot parse: 501, no
\* callback, nothing stored.
BadAddress(s) ==
  /\ conn[s] = "open" /\ pc[s] = "idle"
  /\ \E address \in SenderPool \cup RcptPool :
       /\ ~ListenerParsesAddress(address) \/ (address = <<>> /\ envelope[s].mailFrom # <<>>)
       /\ last' = [last EXCEPT ![s] = [NoCall EXCEPT !.name = "501", !.address = address]]
  /\ UNCHANGED <<conn, user, envelope, pc, h, cb, attempts, authed, probe, cli, tests>>

\* RCPT TO: needs an accepted MAIL FROM; the listener calls onRcptTo and
\* stores the address.
RcptTo(s) ==
  /\ conn[s] = "open" /\ pc[s] = "idle"
  /\ envelope[s].mailFrom # <<>>
  /\ \E address \in RcptPool :
       /\ address # <<>> /\ ListenerParsesAddress(address)
       /\ LET err == onRcptTo(address)
              stored == IF err = NoError THEN StoreRcpt(envelope[s].rcptTo, address)
                        ELSE envelope[s].rcptTo
          IN  /\ Len(stored) <= MaxRcpt
              /\ envelope' = [envelope EXCEPT ![s].rcptTo = stored]
              /\ last' = [last EXCEPT ![s] =
                            [NoCall EXCEPT !.name = "onRcptTo",
                                           !.address = address, !.err = err]]
  /\ UNCHANGED <<conn, user, pc, h, cb, attempts, authed, probe, cli, tests>>

\* The inbound connection is closed, by the client or by the network. A
\* running onData handler is not told.
Close(s) ==
  /\ conn[s] = "open"
  /\ conn' = [conn EXCEPT ![s] = "closed"]
  /\ UNCHANGED <<user, envelope, pc, h, cb, attempts, last, authed, probe, cli, tests>>

----------------------------------------------------------------------------
\* onData: the relay

\* createDkimSigner without the test of the key: a context with an empty key
createDkimSignerNoTest(domain, dkimConfig) ==
  <<[domainName |-> domain, keySelector |-> dkimConfig.selector,
     privateKey |-> dkimConfig.privateKey]>>

\* createDkimSigner: undefined (<<>>) for an empty privateKey, else the options
\* nodemailer takes as `dkim`. The property reads cannot throw on a DkimConfig.
createDkimSigner(domain, dkimConfig) ==
  LET privateKey == dkimConfig.privateKey
  IN  IF privateKey = "" THEN <<>>
      ELSE <<[domainName |-> domain, keySelector |-> dkimConfig.selector,
              privateKey |-> privateKey]>>

\* const dkimSigner = createDkimSigner(this.config.domain, this.config.dkim)
MessageDkimSigner == createDkimSigner(ConfigDomain, ConfigDkim)

\* a signer made for each transport, with the domain the transport delivers to
TransportDkimPerDomain(dkimSigner, domain) == createDkimSigner(domain, ConfigDkim)

\* createTransport({..., dkim: dkimSigner}): the transport of a domain signs
\* with the signer of the message
TransportDkim(dkimSigner, domain) == dkimSigner

\* an identifier generated for every message, the parsed one overwritten
MessageIdAlwaysGenerated(parsedMessageId, now, random) ==
  <<"<">> \o now \o <<".">> \o random \o <<"@">> \o ConfigDomain \o <<">">>

\* parsedMail.messageId || `<${Date.now()}.${random}@${this.config.domain}>`
MessageId(parsedMessageId, now, random) ==
  IF parsedMessageId # <<>> THEN parsedMessageId
  ELSE <<"<">> \o now \o <<".">> \o random \o <<"@">> \o ConfigDomain \o <<">">>

\* ['from', 'to', 'cc', 'bcc', 'subject', 'message-id']
ReplacedHeaders ==
  { <<"f", "r", "o", "m">>, <<"t", "o">>, <<"c", "c">>, <<"b", "c", "c">>,
    <<"s", "u", "b", "j", "e", "c", "t">>,
    <<"m", "e", "s", "s", "a", "g", "e", "-", "i", "d">> }

\* the filter with the key compared as it is written
RECURSIVE ForwardedHeadersCaseSensitive(_)
ForwardedHeadersCaseSensitive(headerLines) ==
  IF headerLines = <<>> THEN <<>>
  ELSE (IF Head(headerLines).key \notin ReplacedHeaders
        THEN <<[key |-> Head(headerLines).key, value |-> Head(headerLines).line]>>
        ELSE <<>>)
       \o ForwardedHeadersCaseSensitive(Tail(headerLines))

\* headers: parsedMail.headerLines.filter(header => ![...].includes(
\* header.key.toLowerCase())).map(header => ({key, value: header.line}))
RECURSIVE ForwardedHeaders(_)
ForwardedHeaders(headerLines) ==
  IF headerLines = <<>> THEN <<>>
  ELSE (IF ToLowerCase(Head(headerLines).key) \notin ReplacedHeaders
        THEN <<[key |-> Head(headerLines).key, value |-> Head(headerLines).line]>>
        ELSE <<>>)
       \o ForwardedHeaders(Tail(headerLines))

NoResults == [success |-> <<>>, failed |-> <<>>]

\* The locals of a handler that is not running
NoHandler ==
  [caught |-> "", parsedMessageId |-> <<>>, messageId |-> <<>>,
   from |-> <<>>, to |-> <<>>, fromDomain |-> <<>>, recipients |-> <<>>,
   recipientGroups |-> <<>>, dkimSigner |-> <<>>, keys |-> <<>>, idx |-> 0,
   mx |-> <<>>, mxHost |-> <<>>, results |-> NoResults]

NoCallback == [count |-> 0, err |-> NoError]

\* a handler whose success branch has no call of the callback
callbackOnErrorOnly(c, err) ==
  IF err = NoError THEN c ELSE [count |-> c.count + 1, err |-> err]

\* callback(error) / callback(): the listener is given the answer; c is
\* the record of the calls made so far for this DATA command.
callback(c, err) == [count |-> c.count + 1, err |-> err]

\* const to = session.envelope.rcptTo.map(rcpt => rcpt.address).join(', ')
ToHeader(rcptTo) == Join(rcptTo, <<",", " ">>)

\* let recipientsStr = to; if (parsedMail.cc) ...; if (parsedMail.bcc) ...
\* mailparser yields address objects, never strings, for Cc and Bcc: a Cc
\* header appends the envelope recipients once more, a Bcc header appends ''.
RecipientsStr(to, hasCc, hasBcc) ==
  to \o (IF hasCc THEN <<",">> \o to ELSE <<>>)
     \o (IF hasBcc THEN <<",">> ELSE <<>>)

\* recipient.address.split('@')[1]
RecipientDomain(recipient) == At(Split(recipient.address, "@"), 2)

\* recipientGroups is a plain object: for a domain that names a property of
\* Object.prototype, recipientGroups[domain] is that inherited value, the
\* group is not created, and .push is not a function: a TypeError.
ObjectPrototypeKeys ==
  { <<"c", "o", "n", "s", "t", "r", "u", "c", "t", "o", "r">>,
    <<"_", "_", "p", "r", "o", "t", "o", "_", "_">>,
    <<"t", "o", "S", "t", "r", "i", "n", "g">>,
    <<"v", "a", "l", "u", "e", "O", "f">> }

\* Group recipients by domain: recipientGroups as the list of its entries
\* {domain, members} in the order in which the keys were created. The loop
\* ends at a recipient whose push throws, with the groups built until then.
RECURSIVE GroupInto(_, _)
GroupInto(groups, recipients) ==
  IF recipients = <<>> \/ RecipientDomain(Head(recipients)) \in ObjectPrototypeKeys
  THEN groups
  ELSE LET recipient == Head(recipients)
           recipientDomain == RecipientDomain(recipient)
           known == \E i \in 1..Len(groups) : groups[i].domain = recipientDomain
           created == IF known THEN groups
                      ELSE Append(groups, [domain |-> recipientDomain, members |-> <<>>])
           pushed == [i \in 1..Len(created) |->
                        IF created[i].domain = recipientDomain
                        THEN [created[i] EXCEPT !.members = Append(@, recipient)]
                        ELSE created[i]]
       IN  GroupInto(pushed, Tail(recipients))

GroupRecipients(recipients) == GroupInto(<<>>, recipients)

GroupingThrows(recipients) ==
  \E i \in 1..Len(recipients) : RecipientDomain(recipients[i]) \in ObjectPrototypeKeys

\* a loop over the recipients instead of over the groups: one key per member
RECURSIVE KeyPerMember(_)
KeyPerMember(groups) ==
  IF groups = <<>> THEN <<>>
  ELSE [i \in 1..Len(Head(groups).members) |-> Head(groups).domain]
       \o KeyPerMember(Tail(groups))

GroupKeys(groups) == ForInKeys([i \in 1..Len(groups) |-> groups[i].domain])

GroupOf(groups, domain) ==
  groups[CHOOSE i \in 1..Len(groups) : groups[i].domain = domain].members

\* a .catch(() => []) in place of the fallback target
MxTargetsNoFallback(answer, domain) ==
  IF answer = MxError THEN <<>> ELSE answer

\* const mx = await promisify(dns.resolveMx)(domain).catch(() => [...])
MxTargets(answer, domain) ==
  IF answer = MxError THEN <<[priority |-> 0, exchange |-> domain]>> ELSE answer

\* mx.sort((a, b) => a.priority - b.priority)[0].exchange
MxHost(answer, domain) == SortByPriority(MxTargets(answer, domain))[1].exchange

mxPort == 25

\* the message of the TypeError of priorityMx.exchange without a first record
NoFirstRecord == "Cannot read properties of undefined (reading 'exchange')"

\* a loop that ends at the first failure (break, or a rethrow, in the catch)
NextIndexAbort(idx, failedNow) == IF failedNow THEN idx + MaxRcpt + MaxRcpt ELSE idx + 1

\* a loop that tries a failed domain once more
NextIndexRetry(idx, failedNow) == IF failedNow THEN idx ELSE idx + 1

\* The for-in loop moves on to the next key after a domain's outcome, be it
\* a success or a failure caught by the inner try/catch.
NextIndex(idx, failedNow) == idx + 1

\* the response with the outer test on results.success instead of
\* results.failed: a message that reached some domain is accepted
FinalResponseAnySuccess(results) ==
  IF Len(results.success) = 0 /\ Len(results.failed) > 0
  THEN <<[message |-> <<"Delivery failed to all ",
                        ToString(Len(results.failed)), " domains">>,
          deliveryResults |-> <<results>>]>>
  ELSE NoError

\* the response with the two counts of the partial message exchanged
FinalResponseSwapped(results) ==
  IF Len(results.failed) > 0
  THEN IF Len(results.success) > 0
       THEN <<[message |-> <<"Partial delivery: ", ToString(Len(results.failed)),
                             " succeeded, ", ToString(Len(results.success)), " failed">>,
               deliveryResults |-> <<results>>]>>
       ELSE <<[message |-> <<"Delivery failed to all ",
                             ToString(Len(results.failed)), " domains">>,
               deliveryResults |-> <<results>>]>>
  ELSE NoError

\* the response with >= 0 in place of > 0 in the inner test: a total failure
\* is reported as a partial one
FinalResponseNeverTotal(results) ==
  IF Len(results.failed) > 0
  THEN <<[message |-> <<"Partial delivery: ", ToString(Len(results.success)),
                        " succeeded, ", ToString(Len(results.failed)), " failed">>,
          deliveryResults |-> <<results>>]>>
  ELSE NoError

\* a response that asks for a success: nothing delivered is a failure
FinalResponseNeedsSuccess(results) ==
  IF Len(results.success) = 0
  THEN <<[message |-> <<"Delivery failed to all ",
                        ToString(Len(results.failed)), " domains">>,
          deliveryResults |-> <<results>>]>>
  ELSE IF Len(results.failed) > 0
  THEN <<[message |-> <<"Partial delivery: ", ToString(Len(results.success)),
                        " succeeded, ", ToString(Len(results.failed)), " failed">>,
          deliveryResults |-> <<results>>]>>
  ELSE NoError

\* Return appropriate response based on results: the argument of callback()
FinalResponse(results) ==
  IF Len(results.failed) > 0
  THEN IF Len(results.success) > 0
       THEN <<[message |-> <<"Partial delivery: ", ToString(Len(results.success)),
                             " succeeded, ", ToString(Len(results.failed)), " failed">>,
               deliveryResults |-> <<results>>]>>
       ELSE <<[message |-> <<"Delivery failed to all ",
                             ToString(Len(results.failed)), " domains">>,
               deliveryResults |-> <<results>>]>>
  ELSE NoError

ProcessingError == <<[message |-> <<"Error processing message">>, deliveryResults |-> <<>>]>>

\* the message of the TypeError of fromAddress.address without a first entry
NoFromAddress == "Cannot read properties of undefined (reading 'address')"

\* the message of the TypeError of push on an inherited property
NoPush == "recipientGroups[recipientDomain].push is not a function"

\* an outer catch that hands the caught error on to the client
OuterCatchLeaks(error) == <<[message |-> <<error>>, deliveryResults |-> <<>>]>>

\* an outer catch that swallows the error and accepts the message
OuterCatchSilent(error) == NoError

\* catch (error) { ...; callback(new Error('Error processing message')) }:
\* the caught error is logged, the client gets the fixed text.
OuterCatch(error) == ProcessingError

\* An object of the handler is named by the expression that creates it and
\* the iteration of the loop in which it runs, 0 for the code before the loop.
NoObject == <<"none", 0>>

\* the arrays of mailOptions, made once per message; the spread
\* ...mailOptions copies the references to them into every domainMessage
MessageHeaders == <<"mailOptions.headers", 0>>
MessageAttachments == <<"mailOptions.attachments", 0>>

\* the signer of the message, where there is one
SignerObject(dkimSigner) == IF dkimSigner = <<>> THEN NoObject ELSE <<"dkimSigner", 0>>

\* a transport made once, before the loop, and used in every iteration
TransportHoisted(idx) == <<"createTransport", 0>>

\* const transport = nodemailer.createTransport({...}) in the loop body
Transport(idx) == <<"createTransport", idx>>

\* const mx = await resolveMx(domain).catch(() => [...]): the array of this
\* iteration, from the resolver or from the catch
MxArray(idx) == <<"mx", idx>>

\* The history entry of the delivery the loop body starts for keys[idx]
NewAttempt(hr) ==
  LET domain == hr.keys[hr.idx]
      domainRecipients == GroupOf(hr.recipientGroups, domain)
  IN  [domain |-> domain,
       envelope |-> [from |-> hr.from,
                     to |-> [i \in 1..Len(domainRecipients) |-> domainRecipients[i].address]],
       messageId |-> hr.messageId,
       mxFailed |-> FALSE, host |-> <<>>, port |-> 0, dkim |-> <<>>,
       refs |-> [domainMessage |-> <<"domainMessage", hr.idx>>,
                 envelope |-> <<"envelope", hr.idx>>,
                 to |-> <<"envelope.to", hr.idx>>,
                 headers |-> MessageHeaders,
                 attachments |-> MessageAttachments,
                 mx |-> NoObject, transport |-> NoObject, dkim |-> NoObject],
       state |-> "resolving", error |-> "", closed |-> FALSE]

\* a loop body that ends with `return callback()`: the loop is left after the
\* first domain
LoopDoneAfterFirst(hr) == hr.idx > 1

\* for (const domain in recipientGroups): the loop is over when every key
\* has had its turn
LoopDone(hr) == hr.idx > Len(hr.keys)

\* a results object declared outside the handler: the response of a message
\* counts what every running handler has pushed
ResponseResultsShared(s, hr) ==
  LET other == CHOOSE t \in SessionIds : t # s
  IN  [success |-> hr.results.success \o h[other].results.success,
       failed |-> hr.results.failed \o h[other].results.failed]

\* const results = {...} is declared inside the 'end' listener: the response
\* of session s is computed from the object of its own handler run.
ResponseResults(s, hr) == hr.results

\* The head of the for-in loop with locals hr: either the body starts for
\* keys[idx] and suspends in resolveMx, or the loop is over and the response
\* is given to the listener.
LoopHead(s, hr, history) ==
  /\ h' = [h EXCEPT ![s] = hr]
  /\ IF ~LoopDone(hr)
     THEN /\ pc' = [pc EXCEPT ![s] = "resolving"]
          /\ attempts' = [attempts EXCEPT ![s] =
                            Append(history,
                                   [NewAttempt(hr) EXCEPT !.closed = conn[s] = "closed"])]
          /\ cb' = cb
     ELSE /\ pc' = [pc EXCEPT ![s] = "done"]
          /\ attempts' = [attempts EXCEPT ![s] = history]
          /\ cb' = [cb EXCEPT ![s] = callback(@, FinalResponse(ResponseResults(s, hr)))]

\* DATA: needs at least one accepted RCPT TO; the listener calls onData,
\* which subscribes to the stream.
Data(s) ==
  /\ conn[s] = "open" /\ pc[s] = "idle"
  /\ envelope[s].mailFrom # <<>> /\ envelope[s].rcptTo # <<>>
  /\ pc' = [pc EXCEPT ![s] = "receiving"]
  /\ last' = [last EXCEPT ![s] = [NoCall EXCEPT !.name = "onData"]]
  /\ UNCHANGED <<conn, user, envelope, h, cb, attempts, authed, probe, cli, tests>>

\* stream 'end': the handler starts and suspends in simpleParser.
StreamEnd(s) ==
  /\ pc[s] = "receiving" /\ conn[s] = "open"
  /\ pc' = [pc EXCEPT ![s] = "parsing"]
  /\ UNCHANGED <<conn, user, envelope, h, cb, attempts, last, authed, probe, cli, tests>>

\* simpleParser rejects: the outer catch answers with the fixed error.
ParseFailed(s) ==
  /\ pc[s] = "parsing"
  /\ \E error \in ParseErrors :
       /\ h' = [h EXCEPT ![s] = [NoHandler EXCEPT !.caught = error]]
       /\ cb' = [cb EXCEPT ![s] = callback(@, OuterCatch(error))]
  /\ pc' = [pc EXCEPT ![s] = "done"]
  /\ UNCHANGED <<conn, user, envelope, attempts, last, authed, probe, cli, tests>>

\* simpleParser resolves: envelope, recipients and groups are computed and
\* the loop is entered, all without suspending; an exception on the way
\* (no first entry in addressparser(from), a group that cannot be created)
\* is answered by the outer catch.
Parsed(s) ==
  /\ pc[s] = "parsing"
  /\ \E hasCc \in BOOLEAN, hasBcc \in BOOLEAN,
        parsedMessageId \in ParsedMessageIds, now \in Nows, random \in Randoms :
       LET messageId == MessageId(parsedMessageId, now, random)
           from == IF envelope[s].mailFrom # <<>> THEN envelope[s].mailFrom[1]
                   ELSE <<"u", "n", "k", "n", "o", "w", "n">>
           to == ToHeader(envelope[s].rcptTo)
           fromAddress == addressparser(from)[1]
           recipients == addressparser(RecipientsStr(to, hasCc, hasBcc))
           recipientGroups == GroupRecipients(recipients)
       IN  IF addressparser(from) = <<>> \/ GroupingThrows(recipients)
           THEN /\ pc' = [pc EXCEPT ![s] = "done"]
                /\ cb' = [cb EXCEPT ![s] =
                            callback(@, OuterCatch(IF addressparser(from) = <<>>
                                                   THEN NoFromAddress ELSE NoPush))]
                /\ h' = IF addressparser(from) = <<>>
                        THEN [h EXCEPT ![s] = [NoHandler EXCEPT !.caught = NoFromAddress]]
                        ELSE [h EXCEPT ![s] =
                                [NoHandler EXCEPT
                                   !.caught = NoPush,
                                   !.parsedMessageId = parsedMessageId,
                                   !.messageId = messageId,
                                   !.from = from, !.to = to,
                                   !.fromDomain = At(Split(fromAddress.address, "@"), 2),
                                   !.recipients = recipients,
                                   !.recipientGroups = recipientGroups]]
                /\ UNCHANGED attempts
           ELSE LoopHead(s, [caught |-> "",
                             parsedMessageId |-> parsedMessageId,
                             messageId |-> messageId,
                             from |-> from, to |-> to,
                             fromDomain |-> At(Split(fromAddress.address, "@"), 2),
                             recipients |-> recipients,
                             recipientGroups |-> recipientGroups,
                             dkimSigner |-> MessageDkimSigner,
                             keys |-> GroupKeys(recipientGroups),
                             idx |-> 1, mx |-> <<>>, mxHost |-> <<>>,
                             results |-> NoResults],
                         attempts[s])
  /\ UNCHANGED <<conn, user, envelope, last, authed, probe, cli, tests>>

\* the attempt the loop body of s is working on
Current(s) == attempts[s][Len(attempts[s])]

SetLast(seq, field, value) ==
  [seq EXCEPT ![Len(seq)] = [@ EXCEPT ![field] = value]]

\* resolveMx settles: the transport for the first target is created and the
\* handler suspends in sendMail. Without a first target the read of
\* priorityMx.exchange throws into the inner catch.
MxResolved(s) ==
  /\ pc[s] = "resolving"
  /\ \E answer \in MxAnswers :
       LET domain == h[s].keys[h[s].idx]
           mx == MxTargets(answer, domain)
           resolved == SetLast(SetLast(attempts[s], "mxFailed", answer = MxError),
                               "refs", [Current(s).refs EXCEPT
                                          !.mx = MxArray(h[s].idx),
                                          !.transport = IF mx = <<>> THEN NoObject
                                                        ELSE Transport(h[s].idx),
                                          !.dkim = IF mx = <<>> THEN NoObject
                                                   ELSE SignerObject(h[s].dkimSigner)])
       IN  IF mx = <<>>
           THEN LoopHead(s, [h[s] EXCEPT !.results.failed =
                                          Append(@, [domain |-> domain,
                                                     error |-> NoFirstRecord]),
                                        !.idx = NextIndex(@, TRUE)],
                         SetLast(SetLast(resolved, "state", "failed"),
                                 "error", NoFirstRecord))
           ELSE /\ h' = [h EXCEPT ![s].mx = mx,
                                  ![s].mxHost = MxHost(answer, domain)]
                /\ attempts' = [attempts EXCEPT ![s] =
                                  SetLast(SetLast(SetLast(SetLast(resolved, "host",
                                                                  MxHost(answer, domain)),
                                                          "port", mxPort),
                                                  "dkim",
                                                  TransportDkim(h[s].dkimSigner, domain)),
                                          "state", "sending")]
                /\ pc' = [pc EXCEPT ![s] = "sending"]
                /\ cb' = cb
  /\ UNCHANGED <<conn, user, envelope, last, authed, probe, cli, tests>>

\* a handler that gives up a delivery whose session has been closed
OutcomeUnlessClosed(s, outcome) == IF conn[s] = "closed" THEN "dropped" ELSE outcome

\* The handler listens to the 'data' and 'end' events of the stream only:
\* the continuation after sendMail records the outcome whatever has become
\* of the inbound connection.
Outcome(s, outcome) == outcome

\* sendMail resolves: results.success.push(domain), then the loop goes on.
SendSucceeded(s) ==
  /\ pc[s] = "sending"
  /\ LET domain == h[s].keys[h[s].idx]
     IN  LoopHead(s, [h[s] EXCEPT !.results.success = Append(@, domain),
                                  !.idx = NextIndex(@, FALSE), !.mx = <<>>],
                  SetLast(attempts[s], "state", Outcome(s, "ok")))
  /\ UNCHANGED <<conn, user, envelope, last, authed, probe, cli, tests>>

\* sendMail rejects: the inner catch pushes {domain, error} to
\* results.failed, then the loop goes on.
SendFailed(s) ==
  /\ pc[s] = "sending"
  /\ \E errorMessage \in SendErrors :
       LET domain == h[s].keys[h[s].idx]
       IN  LoopHead(s, [h[s] EXCEPT !.results.failed =
                                      Append(@, [domain |-> domain, error |-> errorMessage]),
                                    !.idx = NextIndex(@, TRUE), !.mx = <<>>],
                    SetLast(SetLast(attempts[s], "state", Outcome(s, "failed")),
                            "error", errorMessage))
  /\ UNCHANGED <<conn, user, envelope, last, authed, probe, cli, tests>>

\* The listener has the callback's answer: it replies 250 or the error and
\* resets the transaction; the session stays authenticated.
Respond(s) ==
  /\ pc[s] = "done"
  /\ pc' = [pc EXCEPT ![s] = "idle"]
  /\ envelope' = [envelope EXCEPT ![s] = EmptyEnvelope]
  /\ h' = [h EXCEPT ![s] = NoHandler]
  /\ cb' = [cb EXCEPT ![s] = NoCallback]
  /\ attempts' = [attempts EXCEPT ![s] = <<>>]
  /\ UNCHANGED <<conn, user, last, authed, probe, cli, tests>>

----------------------------------------------------------------------------
\* no pure function is under test
NoProbe ==
  [fn |-> "none", done |-> FALSE, address |-> <<>>, domain |-> <<>>,
   dkimConfig |-> ConfigDkim, headerLines |-> <<>>, recipients |-> <<>>,
   ips |-> <<>>, txt |-> [error |-> "", records |-> <<>>], out |-> <<>>]

\* no command has been started
NoProcess ==
  [command |-> "none", at |-> "none", original |-> "absent", file |-> "absent",
   writes |-> 0, keys |-> 0, strict |-> "", dns |-> <<>>, server |-> "none",
   handlers |-> FALSE, signals |-> 0, exitCode |-> ""]

\* testSmtpConnections has not been called
NoTests == [providers |-> <<>>, called |-> FALSE, test |-> <<>>, returned |-> <<>>]

Init ==
  /\ conn = [s \in SessionIds |-> "none"]
  /\ user = [s \in SessionIds |-> <<>>]
  /\ envelope = [s \in SessionIds |-> EmptyEnvelope]
  /\ pc = [s \in SessionIds |-> "idle"]
  /\ h = [s \in SessionIds |-> NoHandler]
  /\ cb = [s \in SessionIds |-> NoCallback]
  /\ attempts = [s \in SessionIds |-> <<>>]
  /\ last = [s \in SessionIds |-> NoCall]
  /\ authed = [s \in SessionIds |-> <<>>]
  /\ probe = NoProbe
  /\ cli = NoProcess
  /\ tests = NoTests

Step(s) ==
  \/ Connect(s)
  \/ Auth(s)
  \/ MailFrom(s)
  \/ BadAddress(s)
  \/ RcptTo(s)
  \/ Close(s)
  \/ Data(s)
  \/ StreamEnd(s)
  \/ ParseFailed(s)
  \/ Parsed(s)
  \/ MxResolved(s)
  \/ SendSucceeded(s)
  \/ SendFailed(s)
  \/ Respond(s)

Next == \E s \in Active : Step(s)

Spec == Init /\ [][Next]_vars

----------------------------------------------------------------------------
\* The relay with one recipient domain whose mail server never answers
\* (sendMail to it stays pending), every other promise settling in the end.

SlowDomain == <<"f">>

\* sendMail settles, for a domain other than the slow one
Settle(s) ==
  /\ pc[s] = "sending" /\ h[s].keys[h[s].idx] # SlowDomain
  /\ (SendSucceeded(s) \/ SendFailed(s))

StepSlow(s) ==
  \/ Connect(s)
  \/ Auth(s)
  \/ MailFrom(s)
  \/ BadAddress(s)
  \/ RcptTo(s)
  \/ Close(s)
  \/ Data(s)
  \/ StreamEnd(s)
  \/ ParseFailed(s)
  \/ Parsed(s)
  \/ MxResolved(s)
  \/ Settle(s)
  \/ Respond(s)

NextSlow == \E s \in Active : StepSlow(s)

\* The event loop runs a continuation once its promise has settled: the
\* answers of the resolver and of the mail servers that do answer arrive.
SpecSlow ==
  /\ Init /\ [][NextSlow]_vars
  /\ \A s \in Active : WF_vars(MxResolved(s)) /\ WF_vars(Settle(s))

----------------------------------------------------------------------------
\* Two sessions at once: both are authenticated and have a transaction ready
\* for DATA, and the steps of their handlers interleave freely.

TwoEnvelopes ==
  <<[mailFrom |-> <<<<"u", "@", "e", "x">>>>,
     rcptTo |-> <<<<"x", "@", "f">>, <<"z", "@", "7">>>>],
    [mailFrom |-> <<<<"u", "@", "e", "x">>>>,
     rcptTo |-> <<<<"y", "@", "f">>>>]>>

InitTwo ==
  /\ conn = [s \in SessionIds |-> "open"]
  /\ user = [s \in SessionIds |-> onAuth(ConfigUsername, ConfigPassword).user]
  /\ envelope = [s \in SessionIds |-> TwoEnvelopes[s]]
  /\ pc = [s \in SessionIds |-> "idle"]
  /\ h = [s \in SessionIds |-> NoHandler]
  /\ cb = [s \in SessionIds |-> NoCallback]
  /\ attempts = [s \in SessionIds |-> <<>>]
  /\ last = [s \in SessionIds |-> NoCall]
  /\ authed = [s \in SessionIds |->
                 <<[username |-> ConfigUsername, password |-> ConfigPassword]>>]
  /\ probe = NoProbe
  /\ cli = NoProcess
  /\ tests = NoTests

StepTwo(s) ==
  \/ Data(s)
  \/ StreamEnd(s)
  \/ ParseFailed(s)
  \/ Parsed(s)
  \/ MxResolved(s)
  \/ SendSucceeded(s)
  \/ SendFailed(s)
  \/ Respond(s)

NextTwo == \E s \in SessionIds : StepTwo(s)

SpecTwo == InitTwo /\ [][NextTwo]_vars

----------------------------------------------------------------------------
\* The command line (index.ts): the init command and the main command, the
\* DNS verification before the start, and the shutdown on a signal.

SessionVars == <<conn, user, envelope, pc, h, cb, attempts, last, authed>>

\* most signals sent to one process
MaxSignals == 2

Commands == {"init", "main"}

\* what is at the path of the config file: nothing, a configuration, text
\* that is not JSON, or the JSON text null
FileContents == {"absent", "config", "invalid", "null"}

\* values of TINKSES_STRICT_DNS_CHECK ("" when it is not set)
StrictEnvs == {"", "true", "1"}

\* a loadConfig that writes the defaults when it cannot read the file, and
\* returns them
loadConfigCreatesDefault(file) ==
  IF file \in {"config", "null"}
  THEN [config |-> IF file = "config" THEN <<"config">> ELSE <<>>, file |-> file, writes |-> 0]
  ELSE [config |-> <<"default">>, file |-> "default", writes |-> 1]

\* loadConfig: the parsed file, or null when reading or parsing throws; the
\* file is left as it is.
loadConfig(file) ==
  [config |-> IF file = "config" THEN <<"config">> ELSE <<>>, file |-> file, writes |-> 0]

\* fs.existsSync(configPath)
existsSync(file) == file # "absent"

\* verifyDnsConfiguration(config, strict), from the three record checks
verifyDnsConfiguration(spfValid, dkimValid, dmarcValid, strict) ==
  LET allValid == spfValid /\ dkimValid /\ dmarcValid
  IN  IF ~allValid /\ strict THEN FALSE ELSE ~strict \/ allValid

\* a shutdown that does not wait for stop()
ExitReadyNoAwait(server) == server \in {"closing", "closed"}

\* await smtpServer.stop(): the promise is resolved in the callback of
\* server.close
ExitReady(server) == server = "closed"

InitCli ==
  /\ conn = [s \in SessionIds |-> "none"]
  /\ user = [s \in SessionIds |-> <<>>]
  /\ envelope = [s \in SessionIds |-> EmptyEnvelope]
  /\ pc = [s \in SessionIds |-> "idle"]
  /\ h = [s \in SessionIds |-> NoHandler]
  /\ cb = [s \in SessionIds |-> NoCallback]
  /\ attempts = [s \in SessionIds |-> <<>>]
  /\ last = [s \in SessionIds |-> NoCall]
  /\ authed = [s \in SessionIds |-> <<>>]
  /\ probe = NoProbe
  /\ tests = NoTests
  /\ \E command \in Commands, file \in FileContents, strict \in StrictEnvs :
       cli = [NoProcess EXCEPT !.command = command, !.at = "start", !.original = file,
                               !.file = file, !.strict = strict]

\* tinkses init: the interactive setup only when no configuration is loaded
RunInit ==
  /\ cli.command = "init" /\ cli.at = "start"
  /\ LET loaded == loadConfig(cli.file)
     IN  cli' = [cli EXCEPT !.file = loaded.file, !.writes = @ + loaded.writes,
                            !.at = IF loaded.config = <<>> THEN "setup" ELSE "returned"]
  /\ UNCHANGED <<SessionVars, probe, tests>>

\* tinkses: without a file or without a configuration the interactive setup
\* runs and the action returns; otherwise the DNS records are verified
RunMain ==
  /\ cli.command = "main" /\ cli.at = "start"
  /\ LET configFileExists == existsSync(cli.file)
         loaded == loadConfig(cli.file)
     IN  cli' = [cli EXCEPT !.file = loaded.file, !.writes = @ + loaded.writes,
                            !.at = IF ~configFileExists \/ loaded.config = <<>>
                                   THEN "setup" ELSE "verifying"]
  /\ UNCHANGED <<SessionVars, probe, tests>>

\* initConfig: the prompts are answered, keys are generated, the
\* configuration is saved
SetupCompleted ==
  /\ cli.at = "setup"
  /\ cli' = [cli EXCEPT !.keys = @ + 1, !.file = "saved", !.writes = @ + 1,
                        !.at = "returned"]
  /\ UNCHANGED <<SessionVars, probe, tests>>

\* the three lookups have answered: exit 1 in strict mode when the
\* verification result is false, otherwise the server is created and started
\* (listen may fail, which the 'error' handler logs) and the signal handlers
\* are registered
DnsVerified ==
  /\ cli.at = "verifying"
  /\ \E spfValid \in BOOLEAN, dkimValid \in BOOLEAN, dmarcValid \in BOOLEAN,
        listening \in BOOLEAN :
       LET verificationResult == verifyDnsConfiguration(spfValid, dkimValid, dmarcValid, FALSE)
           dns == <<[spf |-> spfValid, dkim |-> dkimValid, dmarc |-> dmarcValid]>>
       IN  IF cli.strict = "true" /\ ~verificationResult
           THEN cli' = [cli EXCEPT !.dns = dns, !.at = "exited", !.exitCode = "1"]
           ELSE cli' = [cli EXCEPT !.dns = dns, !.at = "running", !.handlers = TRUE,
                                   !.server = IF listening THEN "listening" ELSE "failed"]
  /\ UNCHANGED <<SessionVars, probe, tests>>

\* SIGINT, SIGTERM or SIGQUIT before the handlers are registered: the
\* default disposition ends the process
Killed ==
  /\ cli.at \in {"start", "setup", "verifying"} /\ ~cli.handlers
  /\ cli' = [cli EXCEPT !.at = "exited", !.exitCode = "signal"]
  /\ UNCHANGED <<SessionVars, probe, tests>>

\* SIGINT, SIGTERM or SIGQUIT with the handlers registered: shutdown calls
\* smtpServer.stop(), which calls server.close, and awaits it
Signal ==
  /\ cli.handlers /\ cli.at \in {"running", "stopping"}
  /\ cli.signals < MaxSignals
  /\ cli' = [cli EXCEPT !.signals = @ + 1, !.at = "stopping",
                        !.server = IF @ \in {"listening", "failed"} THEN "closing" ELSE @]
  /\ UNCHANGED <<SessionVars, probe, tests>>

\* the listener has closed: the callback of server.close resolves stop()
CloseCompleted ==
  /\ cli.server = "closing" /\ cli.at = "stopping"
  /\ cli' = [cli EXCEPT !.server = "closed"]
  /\ UNCHANGED <<SessionVars, probe, tests>>

\* shutdown goes on after the await: process.exit(0)
ShutdownExits ==
  /\ cli.at = "stopping" /\ ExitReady(cli.server)
  /\ cli' = [cli EXCEPT !.at = "exited", !.exitCode = "0"]
  /\ UNCHANGED <<SessionVars, probe, tests>>

NextCli ==
  \/ RunInit
  \/ RunMain
  \/ SetupCompleted
  \/ DnsVerified
  \/ Killed
  \/ Signal
  \/ CloseCompleted
  \/ ShutdownExits

SpecCli == InitCli /\ [][NextCli]_vars

----------------------------------------------------------------------------
\* testSmtpConnections (network.ts): one socket, one timer and one promise
\* per provider, all started at once, and Promise.all over the promises.

\* most providers given to one call
MaxProviders == 3

ProviderPool == {"smtp.gmail.com", "smtp.zoho.com"}

ProviderLists == UNION {[1..n -> ProviderPool] : n \in 0..MaxProviders}

SocketErrors == {"connect ECONNREFUSED", "read ECONNRESET"}

\* a test without the setTimeout
TimerAtStartNone == "none"

\* const timeout = setTimeout(..., 5000)
TimerAtStart == "armed"

\* testConnection(host) up to the return of the promise's executor
NewTest(host) ==
  [host |-> host, socket |-> "connecting", timer |-> TimerAtStart,
   events |-> <<>>, promise |-> <<>>]

\* resolve(result): settles the promise unless it is settled
Resolve(t, event, result) ==
  [t EXCEPT !.events = Append(@, event),
            !.promise = IF @ = <<>> THEN <<result>> ELSE @]

\* clearTimeout(timeout)
ClearTimeout(timer) == IF timer = "armed" THEN "cleared" ELSE timer

InitNet ==
  /\ conn = [s \in SessionIds |-> "none"]
  /\ user = [s \in SessionIds |-> <<>>]
  /\ envelope = [s \in SessionIds |-> EmptyEnvelope]
  /\ pc = [s \in SessionIds |-> "idle"]
  /\ h = [s \in SessionIds |-> NoHandler]
  /\ cb = [s \in SessionIds |-> NoCallback]
  /\ attempts = [s \in SessionIds |-> <<>>]
  /\ last = [s \in SessionIds |-> NoCall]
  /\ authed = [s \in SessionIds |-> <<>>]
  /\ probe = NoProbe
  /\ cli = NoProcess
  /\ \E providers \in ProviderLists : tests = [NoTests EXCEPT !.providers = providers]

\* the call: providers.map starts every test before any event is handled
CallTests ==
  /\ ~tests.called
  /\ tests' = [tests EXCEPT !.called = TRUE,
                            !.test = [i \in 1..Len(tests.providers) |->
                                        NewTest(tests.providers[i])]]
  /\ UNCHANGED <<SessionVars, probe, cli>>

\* 'connect': the timer is cleared, the socket is ended, success
SocketConnect(i) ==
  /\ tests.called /\ i \in 1..Len(tests.test)
  /\ tests.test[i].socket = "connecting"
  /\ tests' = [tests EXCEPT !.test[i] =
                 Resolve([@ EXCEPT !.socket = "ended", !.timer = ClearTimeout(@)],
                         "connect",
                         [host |-> tests.test[i].host, success |-> TRUE, error |-> ""])]
  /\ UNCHANGED <<SessionVars, probe, cli>>

\* 'error', while connecting or after the end of a connected socket: the
\* timer is cleared, failure with the error's message
SocketError(i) ==
  /\ tests.called /\ i \in 1..Len(tests.test)
  /\ tests.test[i].socket \in {"connecting", "ended"}
  /\ \E message \in SocketErrors :
       tests' = [tests EXCEPT !.test[i] =
                   Resolve([@ EXCEPT !.socket = "errored", !.timer = ClearTimeout(@)],
                           "error",
                           [host |-> tests.test[i].host, success |-> FALSE,
                            error |-> message])]
  /\ UNCHANGED <<SessionVars, probe, cli>>

\* the timer fires: the socket is destroyed, failure by timeout
Timeout(i) ==
  /\ tests.called /\ i \in 1..Len(tests.test)
  /\ tests.test[i].timer = "armed"
  /\ tests' = [tests EXCEPT !.test[i] =
                 Resolve([@ EXCEPT !.socket = "destroyed", !.timer = "fired"],
                         "timeout",
                         [host |-> tests.test[i].host, success |-> FALSE,
                          error |-> "Connection timed out after 5000ms"])]
  /\ UNCHANGED <<SessionVars, probe, cli>>

\* await Promise.all(connectionPromises): every promise is settled, the
\* results are returned in the order of the promises
ReturnResults ==
  /\ tests.called /\ tests.returned = <<>>
  /\ \A i \in 1..Len(tests.test) : tests.test[i].promise # <<>>
  /\ tests' = [tests EXCEPT !.returned =
                 <<[i \in 1..Len(tests.test) |-> tests.test[i].promise[1]]>>]
  /\ UNCHANGED <<SessionVars, probe, cli>>

NextNet ==
  \/ CallTests
  \/ ReturnResults
  \/ \E i \in 1..MaxProviders : SocketConnect(i) \/ SocketError(i) \/ Timeout(i)

\* The event loop runs the call, a timer that is due, and the continuation
\* of a settled Promise.all; whether a host answers is up to the host.
SpecNet ==
  /\ InitNet /\ [][NextNet]_vars
  /\ WF_vars(CallTests) /\ WF_vars(ReturnResults)
  /\ \A i \in 1..MaxProviders : WF_vars(Timeout(i))

----------------------------------------------------------------------------
\* The pure functions of the file, each applied once to an input drawn from a
\* bounded set.

\* longest address given to the domain expression
MaxAddrLen == 5

AddrChars == {"a", "b", "@"}

Addresses == UNION {[1..n -> AddrChars] : n \in 0..MaxAddrLen}

DkimConfigs ==
  {[privateKey |-> k, selector |-> sel] :
     k \in {"", "KEY", "/path/to/private.key"}, sel \in {"default", "s2"}}

SignerDomains == {ConfigDomain, <<"f">>, <<>>}

\* most header lines of a message
MaxHeaders == 3

\* header lines {key, line} a parsed message may have
HeaderLinePool ==
  { [key |-> <<"f", "r", "o", "m">>, line |-> "From: u@ex"],
    [key |-> <<"C", "c">>, line |-> "Cc: y@f"],
    [key |-> <<"M", "e", "s", "s", "a", "g", "e", "-", "I", "D">>, line |-> "Message-ID: <i@c>"],
    [key |-> <<"x", "-", "a">>, line |-> "X-A: 1"],
    [key |-> <<"X", "-", "T", "o">>, line |-> "X-To: 2"],
    [key |-> <<"d", "a", "t", "e">>, line |-> "Date: today"] }

HeaderLists == UNION {[1..n -> HeaderLinePool] : n \in 0..MaxHeaders}

\* longest recipient list given to the grouping and the loop
MaxProbeRcpt == 2

\* entries addressparser may return: an address, a name without an address,
\* an address whose domain names a property of Object.prototype
RecipientPool ==
  { [address |-> <<"x", "@", "f">>, name |-> <<>>],
    [address |-> <<>>, name |-> <<"a">>],
    [address |-> <<"p", "@", "c", "o", "n", "s", "t", "r", "u", "c", "t", "o", "r">>,
     name |-> <<>>] }

RecipientLists == UNION {[1..n -> RecipientPool] : n \in 0..MaxProbeRcpt}

\* Lines 184-289 from the recipient list to the first await: the grouping,
\* the results, and the loop's first step, which either starts the delivery
\* of the first group or, with no group, falls through to the response.
RelayStart(recipients) ==
  LET recipientGroups == GroupRecipients(recipients)
      hr == [NoHandler EXCEPT !.recipients = recipients,
                              !.recipientGroups = recipientGroups,
                              !.keys = GroupKeys(recipientGroups), !.idx = 1]
  IN  IF GroupingThrows(recipients)
      THEN [groups |-> recipientGroups, threw |-> TRUE, attempts |-> <<>>,
            cb |-> callback(NoCallback, OuterCatch(NoPush))]
      ELSE IF LoopDone(hr)
      THEN [groups |-> recipientGroups, threw |-> FALSE, attempts |-> <<>>,
            cb |-> callback(NoCallback, FinalResponse(hr.results))]
      ELSE [groups |-> recipientGroups, threw |-> FALSE,
            attempts |-> <<NewAttempt(hr)>>, cb |-> NoCallback]

\* String.prototype.startsWith and String.prototype.includes
StartsWith(str, prefix) ==
  Len(str) >= Len(prefix) /\ SubSeq(str, 1, Len(prefix)) = prefix

Includes(str, part) ==
  \E i \in 0..(Len(str) - Len(part)) : SubSeq(str, i + 1, i + Len(part)) = part

\* Array.prototype.flat() of the answer of resolveTxt: the chunks of all
\* records, one after the other
RECURSIVE Flat(_)
Flat(records) == IF records = <<>> THEN <<>> ELSE Head(records) \o Flat(Tail(records))

\* ip.includes(':') ? `ip6:${ip}` : `ip4:${ip}`
SpfEntry(ip) ==
  IF Contains(ip, ":") THEN <<"i", "p", "6", ":">> \o ip ELSE <<"i", "p", "4", ":">> \o ip

\* generateSpfRecord(domain, ips)
generateSpfRecord(domain, ips) ==
  LET ipEntries == Join([i \in 1..Len(ips) |-> SpfEntry(ips[i])], <<" ">>)
  IN  <<"v", "=", "s", "p", "f", "1", " ">> \o ipEntries \o <<" ">>
        \o (IF ipEntries # <<>> THEN <<"~", "a", "l", "l">> ELSE <<"-", "a", "l", "l">>)

\* !spfRecord.includes(format)
IpIsMissing(spfRecord, ip) == ~Includes(spfRecord, SpfEntry(ip))

\* verifySpfRecord(domain, ips), from the answer of resolveTxt(domain)
verifySpfRecord(txt, ips) ==
  IF txt.error # ""
  THEN [isValid |-> FALSE, message |-> "Failed to verify SPF record", missingIps |-> <<>>]
  ELSE LET flat == Flat(txt.records)
           found == {i \in 1..Len(flat) : StartsWith(flat[i], <<"v", "=", "s", "p", "f", "1">>)}
       IN  IF found = {}
           THEN [isValid |-> FALSE, message |-> "No SPF record found", missingIps |-> <<>>]
           ELSE LET spfRecord == flat[CHOOSE i \in found : \A j \in found : i <= j]
                    missingIps == SelectSeq(ips, LAMBDA ip : IpIsMissing(spfRecord, ip))
                IN  IF Len(missingIps) > 0
                    THEN [isValid |-> FALSE,
                          message |-> "SPF record found but missing the following IPs",
                          missingIps |-> missingIps]
                    ELSE [isValid |-> TRUE, message |-> "SPF record is properly configured.",
                          missingIps |-> <<>>]

\* most configured IP addresses
MaxIps == 2

\* configured addresses, as short texts: two IPv4 addresses of which one
\* begins with the other, and one IPv6 address
IpPool == { <<"1", ".", "2">>, <<"1", ".", "2", "3">>, <<":", ":", "1">> }

IpLists == UNION {[1..n -> IpPool] : n \in 0..MaxIps}

\* answers of resolveTxt: an error, no record, one SPF record in one chunk
\* alone or after another TXT record, and one SPF record in two chunks
TxtAnswers ==
  {[error |-> "queryTxt ENOTFOUND", records |-> <<>>], [error |-> "", records |-> <<>>]}
    \cup {[error |-> "", records |-> <<<<generateSpfRecord(ConfigDomain, ips)>>>>] :
            ips \in IpLists}
    \cup {[error |-> "",
           records |-> << <<<<"v", "=", "D", "M", "A", "R", "C", "1">>>>,
                          <<generateSpfRecord(ConfigDomain, <<ip>>)>> >>] : ip \in IpPool}
    \cup {[error |-> "",
           records |-> << << <<"v", "=", "s", "p", "f", "1", " ">>,
                             SpfEntry(ip) \o <<" ", "~", "a", "l", "l">> >> >>] : ip \in IpPool}

InitFn ==
  /\ conn = [s \in SessionIds |-> "none"]
  /\ user = [s \in SessionIds |-> <<>>]
  /\ envelope = [s \in SessionIds |-> EmptyEnvelope]
  /\ pc = [s \in SessionIds |-> "idle"]
  /\ h = [s \in SessionIds |-> NoHandler]
  /\ cb = [s \in SessionIds |-> NoCallback]
  /\ attempts = [s \in SessionIds |-> <<>>]
  /\ last = [s \in SessionIds |-> NoCall]
  /\ authed = [s \in SessionIds |-> <<>>]
  /\ \/ \E address \in Addresses :
          probe = [NoProbe EXCEPT !.fn = "domainOf", !.address = address]
     \/ \E domain \in SignerDomains, dkimConfig \in DkimConfigs :
          probe = [NoProbe EXCEPT !.fn = "createDkimSigner", !.domain = domain,
                                  !.dkimConfig = dkimConfig]
     \/ \E headerLines \in HeaderLists :
          probe = [NoProbe EXCEPT !.fn = "headers", !.headerLines = headerLines]
     \/ \E recipients \in RecipientLists :
          probe = [NoProbe EXCEPT !.fn = "relay", !.recipients = recipients]
     \/ \E ips \in IpLists, txt \in TxtAnswers :
          probe = [NoProbe EXCEPT !.fn = "verifySpfRecord", !.ips = ips, !.txt = txt]
  /\ cli = NoProcess
  /\ tests = NoTests

\* address.split('@')[1] of lines 77, 170 and 186
ApplyDomainOf ==
  /\ probe.fn = "domainOf" /\ ~probe.done
  /\ probe' = [probe EXCEPT !.done = TRUE,
                            !.out = RecipientDomain([address |-> probe.address])]
  /\ UNCHANGED <<conn, user, envelope, pc, h, cb, attempts, last, authed, cli, tests>>

ApplyCreateDkimSigner ==
  /\ probe.fn = "createDkimSigner" /\ ~probe.done
  /\ probe' = [probe EXCEPT !.done = TRUE,
                            !.out = createDkimSigner(probe.domain, probe.dkimConfig)]
  /\ UNCHANGED <<conn, user, envelope, pc, h, cb, attempts, last, authed, cli, tests>>

ApplyForwardedHeaders ==
  /\ probe.fn = "headers" /\ ~probe.done
  /\ probe' = [probe EXCEPT !.done = TRUE, !.out = ForwardedHeaders(probe.headerLines)]
  /\ UNCHANGED <<conn, user, envelope, pc, h, cb, attempts, last, authed, cli, tests>>

ApplyRelayStart ==
  /\ probe.fn = "relay" /\ ~probe.done
  /\ probe' = [probe EXCEPT !.done = TRUE, !.out = RelayStart(probe.recipients)]
  /\ UNCHANGED <<conn, user, envelope, pc, h, cb, attempts, last, authed, cli, tests>>

ApplyVerifySpfRecord ==
  /\ probe.fn = "verifySpfRecord" /\ ~probe.done
  /\ probe' = [probe EXCEPT !.done = TRUE, !.out = verifySpfRecord(probe.txt, probe.ips)]
  /\ UNCHANGED <<SessionVars, cli, tests>>

NextFn ==
  \/ ApplyVerifySpfRecord
  \/ ApplyDomainOf
  \/ ApplyCreateDkimSigner
  \/ ApplyForwardedHeaders
  \/ ApplyRelayStart

SpecFn == InitFn /\ [][NextFn]_vars

----------------------------------------------------------------------------
\* What the claims speak of, stated without the handler's own bookkeeping

\* a parsed message whose handler has answered
Completed(s) == pc[s] = "done" /\ h[s].idx > 0

Accepted(s) == cb[s].count = 1 /\ cb[s].err = NoError
Rejected(s) == cb[s].count = 1 /\ cb[s].err # NoError

AttemptsIn(s, state) == {i \in 1..Len(attempts[s]) : attempts[s][i].state = state}

\* the keys of the recipient groups of the message
GroupDomains(s) == {h[s].recipientGroups[i].domain : i \in 1..Len(h[s].recipientGroups)}

SuccessDomains(s) == {h[s].results.success[i] : i \in 1..Len(h[s].results.success)}
FailedDomains(s) == {h[s].results.failed[i].domain : i \in 1..Len(h[s].results.failed)}

\* the text of an address after its first '@'; empty when it has none
DomainAfterAt(address) ==
  IF Contains(address, "@")
  THEN LET first == CHOOSE i \in 1..Len(address) :
                      address[i] = "@" /\ \A j \in 1..(i - 1) : address[j] # "@"
       IN  SubSeq(address, first + 1, Len(address))
  ELSE <<>>

\* C1: once every domain delivery of a message has returned, the session is
\* accepted (callback without error) if and only if every delivery
\* succeeded, which is if and only if the failure list is empty.
C1_AcceptIffAllSucceeded ==
  \A s \in SessionIds :
    Completed(s) =>
      /\ Accepted(s) \/ Rejected(s)
      /\ Accepted(s) <=> AttemptsIn(s, "ok") = 1..Len(attempts[s])
      /\ Accepted(s) <=> h[s].results.failed = <<>>

C1_Witness ==
  \E s \in SessionIds :
    /\ Completed(s) /\ Accepted(s)
    /\ Len(attempts[s]) >= 2
    /\ AttemptsIn(s, "ok") = 1..Len(attempts[s])

\* C2: a mixed outcome is rejected with the message "S succeeded, F failed",
\* S and F the numbers of succeeded and failed domains, and the attached
\* failure list names exactly the failed domains, each with its error text.
C2_PartialDelivery ==
  \A s \in SessionIds :
    (Completed(s) /\ AttemptsIn(s, "ok") # {} /\ AttemptsIn(s, "failed") # {}) =>
      /\ Rejected(s)
      /\ cb[s].err[1].message =
           <<"Partial delivery: ", ToString(Cardinality(AttemptsIn(s, "ok"))),
             " succeeded, ", ToString(Cardinality(AttemptsIn(s, "failed"))), " failed">>
      /\ LET failed == cb[s].err[1].deliveryResults[1].failed
         IN  /\ Len(failed) = Cardinality(AttemptsIn(s, "failed"))
             /\ {failed[i] : i \in 1..Len(failed)} =
                  {[domain |-> attempts[s][i].domain, error |-> attempts[s][i].error] :
                     i \in AttemptsIn(s, "failed")}

C2_Witness ==
  \E s \in SessionIds :
    /\ Completed(s) /\ Rejected(s)
    /\ Cardinality(AttemptsIn(s, "ok")) = 2
    /\ Cardinality(AttemptsIn(s, "failed")) = 1

\* C3: if every delivery fails, the success list is empty and the session is
\* rejected with "Delivery failed to all N domains", N the number of
\* recipient groups of the message.
C3_TotalFailure ==
  \A s \in SessionIds :
    (Completed(s) /\ attempts[s] # <<>>
       /\ AttemptsIn(s, "failed") = 1..Len(attempts[s])) =>
      /\ h[s].results.success = <<>>
      /\ Rejected(s)
      /\ cb[s].err[1].message =
           <<"Delivery failed to all ", ToString(Cardinality(GroupDomains(s))), " domains">>

C3_Witness ==
  \E s \in SessionIds :
    /\ Completed(s) /\ Rejected(s)
    /\ Cardinality(GroupDomains(s)) >= 2
    /\ AttemptsIn(s, "failed") = 1..Len(attempts[s])

C5_ResultPartition ==
  \A s \in SessionIds :
    Completed(s) =>
      /\ SuccessDomains(s) \cap FailedDomains(s) = {}
      /\ SuccessDomains(s) \cup FailedDomains(s) = GroupDomains(s)

C5_Witness ==
  \E s \in SessionIds :
    /\ Completed(s)
    /\ SuccessDomains(s) # {} /\ FailedDomains(s) # {}
    /\ Cardinality(GroupDomains(s)) >= 3

\* C6: no retries: no domain is delivered to twice within one submission,
\* and when the handler answers every recipient group has had exactly one
\* delivery with exactly one outcome.
C6_NoRetry ==
  \A s \in SessionIds :
    /\ \A i, j \in 1..Len(attempts[s]) :
         attempts[s][i].domain = attempts[s][j].domain => i = j
    /\ Completed(s) =>
         /\ Len(attempts[s]) = Cardinality(GroupDomains(s))
         /\ \A i \in 1..Len(attempts[s]) : attempts[s][i].state \in {"ok", "failed"}
         /\ Len(h[s].results.success) + Len(h[s].results.failed)
              = Cardinality(GroupDomains(s))

C6_Witness ==
  \E s \in SessionIds :
    /\ Completed(s)
    /\ Len(attempts[s]) >= 2
    /\ attempts[s][1].state = "failed"
    /\ Len(h[s].recipients) > Len(attempts[s])

\* C7: onMailFrom accepts an address if and only if the text after its '@'
\* is, letter case included, the configured sending domain; every other
\* address is rejected with an error and is not stored in the envelope.
C7_ValidateSender ==
  \A s \in SessionIds :
    last[s].name = "onMailFrom" =>
      /\ last[s].err = NoError <=> DomainAfterAt(last[s].address) = ConfigDomain
      /\ last[s].err # NoError => envelope[s].mailFrom = <<>>

C7_Witness ==
  \E s \in SessionIds :
    /\ last[s].name = "onMailFrom"
    /\ last[s].err # NoError
    /\ last[s].address # <<>>
    /\ ToLowerCase(DomainAfterAt(last[s].address)) = ConfigDomain

\* C8: no outbound delivery is ever made for a message whose envelope sender
\* has a domain other than the configured sending domain.
C8_NoForeignSender ==
  \A s \in SessionIds :
    \A i \in 1..Len(attempts[s]) :
      LET from == attempts[s][i].envelope.from
          parts == Split(from, "@")
      IN  /\ DomainAfterAt(from) = ConfigDomain
          /\ parts[Len(parts)] = ConfigDomain

C8_Witness ==
  \E s \in SessionIds :
    /\ attempts[s] # <<>>
    /\ attempts[s][1].state = "ok"
    /\ DomainAfterAt(attempts[s][1].envelope.from) = ConfigDomain

\* C9: onAuth accepts if and only if user name and password both equal the
\* configured pair; otherwise it reports the authentication error and no
\* user is attached to the session.
C9_Authenticate ==
  \A s \in SessionIds :
    last[s].name = "onAuth" =>
      /\ last[s].err = NoError <=>
           (last[s].username = ConfigUsername /\ last[s].password = ConfigPassword)
      /\ last[s].err = NoError => user[s] = <<last[s].username>>
      /\ last[s].err # NoError =>
           /\ user[s] = <<>>
           /\ last[s].err[1].message = <<"Invalid username or password">>

C9_Witness ==
  \E s \in SessionIds :
    /\ last[s].name = "onAuth"
    /\ last[s].username = ConfigUsername
    /\ last[s].password # ConfigPassword
    /\ user[s] = <<>>

\* C10: no delivery is started, and no message is taken in, in a session
\* that has not authenticated with the configured credentials.
C10_NoRelayWithoutAuth ==
  \A s \in SessionIds :
    (attempts[s] # <<>> \/ pc[s] # "idle" \/ envelope[s].mailFrom # <<>>) =>
      /\ user[s] = <<ConfigUsername>>
      /\ authed[s] = <<[username |-> ConfigUsername, password |-> ConfigPassword]>>

C10_Witness ==
  \E s \in SessionIds :
    /\ attempts[s] # <<>>
    /\ attempts[s][1].state = "sending"
    /\ authed[s] # <<>>

\* C11: onRcptTo accepts every recipient address it is called with, whatever
\* the address and whatever the envelope holds already; the address is then
\* in the envelope.
C11_AcceptRecipient ==
  \A s \in SessionIds :
    last[s].name = "onRcptTo" =>
      /\ last[s].err = NoError
      /\ \E i \in 1..Len(envelope[s].rcptTo) : envelope[s].rcptTo[i] = last[s].address

C11_Witness ==
  \E s \in SessionIds :
    /\ last[s].name = "onRcptTo"
    /\ last[s].err = NoError
    /\ Contains(last[s].address, ",")
    /\ Len(envelope[s].rcptTo) >= 2

\* the handler of s has grouped the recipients and entered the loop
Grouped(s) == pc[s] \in {"resolving", "sending", "done"} /\ h[s].idx > 0

\* every recipient's address has an '@'
AllHaveDomain(recipients) ==
  \A i \in 1..Len(recipients) : Contains(recipients[i].address, "@")

LowerCasedDomains(recipients) ==
  {ToLowerCase(DomainAfterAt(recipients[i].address)) : i \in 1..Len(recipients)}

\* the group in which the i-th recipient was put
GroupIndexOf(s, i) ==
  {g \in 1..Len(h[s].recipientGroups) :
     \E m \in 1..Len(h[s].recipientGroups[g].members) :
       h[s].recipientGroups[g].members[m] = h[s].recipients[i]}

\* C12: the recipient-group keys are exactly the distinct lower-cased
\* recipient domains: recipients whose domains differ only in letter case
\* are in the same group, so that there is one group, and one delivery, per
\* lower-cased domain.
C12_LowerCasedKeys ==
  \A s \in SessionIds :
    (Grouped(s) /\ AllHaveDomain(h[s].recipients)) =>
      /\ Cardinality(GroupDomains(s)) = Cardinality(LowerCasedDomains(h[s].recipients))
      /\ \A i, j \in 1..Len(h[s].recipients) :
           ToLowerCase(DomainAfterAt(h[s].recipients[i].address))
             = ToLowerCase(DomainAfterAt(h[s].recipients[j].address))
           => GroupIndexOf(s, i) = GroupIndexOf(s, j)

\* the number of entries of seq that equal x
Occurrences(seq, x) == Cardinality({i \in 1..Len(seq) : seq[i] = x})

\* the handler of s has run the grouping loop over its recipient list
GroupingRan(s) == pc[s] \in {"resolving", "sending", "done"} /\ h[s].recipients # <<>>

\* C13: grouping is a partition of the recipient list with duplicates
\* preserved: every recipient is, as often as it occurs in the list, in the
\* group of its own domain and in no other group, and every member of a group
\* is a recipient of the list.
C13_GroupingIsPartition ==
  \A s \in SessionIds :
    GroupingRan(s) =>
      LET recipients == h[s].recipients
          groups == h[s].recipientGroups
      IN  /\ \A i \in 1..Len(recipients) :
               \E g \in 1..Len(groups) :
                 /\ groups[g].domain = RecipientDomain(recipients[i])
                 /\ Occurrences(groups[g].members, recipients[i])
                      = Occurrences(recipients, recipients[i])
                 /\ \A o \in 1..Len(groups) :
                      o # g => Occurrences(groups[o].members, recipients[i]) = 0
          /\ \A g \in 1..Len(groups) : \A m \in 1..Len(groups[g].members) :
               Occurrences(recipients, groups[g].members[m]) > 0

\* the domains of the recipients in the order in which each is first seen
RECURSIVE FirstSeen(_, _)
FirstSeen(seen, recipients) ==
  IF recipients = <<>> THEN seen
  ELSE LET d == RecipientDomain(Head(recipients))
       IN  FirstSeen(IF \E i \in 1..Len(seen) : seen[i] = d THEN seen ELSE Append(seen, d),
                     Tail(recipients))

\* the recipients of one domain, in the order of the recipient list
RECURSIVE OfDomain(_, _)
OfDomain(recipients, d) ==
  IF recipients = <<>> THEN <<>>
  ELSE (IF RecipientDomain(Head(recipients)) = d THEN <<Head(recipients)>> ELSE <<>>)
       \o OfDomain(Tail(recipients), d)

\* C14: grouping is order-stable: the loop takes the domains in the order in
\* which each domain's first address stands in the recipient list, and the
\* addresses of a domain keep the order of the recipient list.
C14_OrderStable ==
  \A s \in SessionIds :
    Grouped(s) =>
      /\ h[s].keys = FirstSeen(<<>>, h[s].recipients)
      /\ \A k \in 1..Len(h[s].keys) :
           GroupOf(h[s].recipientGroups, h[s].keys[k])
             = OfDomain(h[s].recipients, h[s].keys[k])

\* C15: the domain of an address with an '@' is everything after its first
\* '@', also when the address has more than one '@'.
C15_DomainAfterFirstAt ==
  (probe.fn = "domainOf" /\ probe.done /\ Contains(probe.address, "@")) =>
     probe.out = DomainAfterAt(probe.address)

C16_MxFallback ==
  \A s \in SessionIds : \A i \in 1..Len(attempts[s]) :
    LET a == attempts[s][i]
    IN  a.mxFailed =>
          /\ a.state \in {"sending", "ok", "failed"}
          /\ a.host = a.domain
          /\ (pc[s] = "sending" /\ i = Len(attempts[s])) =>
               h[s].mx = <<[priority |-> 0, exchange |-> a.domain]>>
          /\ a.state = "sending" => a.domain \notin SuccessDomains(s) \cup FailedDomains(s)
          /\ a.state = "ok" => a.domain \in SuccessDomains(s) \ FailedDomains(s)
          /\ a.state = "failed" =>
               /\ a.error \in SendErrors
               /\ a.domain \in FailedDomains(s) \ SuccessDomains(s)
               /\ \E f \in 1..Len(h[s].results.failed) :
                    h[s].results.failed[f] = [domain |-> a.domain, error |-> a.error]

C16_Witness ==
  \E s \in SessionIds :
    /\ Completed(s) /\ Len(attempts[s]) = 2
    /\ attempts[s][1].mxFailed /\ attempts[s][1].state = "ok"
    /\ attempts[s][2].mxFailed /\ attempts[s][2].state = "failed"

\* C17: when resolveMx answers with records, the delivery connects on port 25
\* to the exchange of the record with the lowest priority number, and among
\* records of that priority to the one that stands first in the answer.
C17_LowestPriorityMx ==
  \A s \in SessionIds :
    /\ \A i \in 1..Len(attempts[s]) :
         attempts[s][i].state # "resolving" => attempts[s][i].port = 25
    /\ (pc[s] = "sending" /\ ~Current(s).mxFailed) =>
         \E i \in 1..Len(h[s].mx) :
           /\ Current(s).host = h[s].mx[i].exchange
           /\ \A j \in 1..Len(h[s].mx) : h[s].mx[j].priority >= h[s].mx[i].priority
           /\ \A j \in 1..(i - 1) : h[s].mx[j].priority > h[s].mx[i].priority

C17_Witness ==
  \E s \in SessionIds :
    /\ pc[s] = "sending" /\ ~Current(s).mxFailed
    /\ Len(h[s].mx) = 2 /\ h[s].mx[1].priority = h[s].mx[2].priority
    /\ Current(s).host = h[s].mx[1].exchange
    /\ Current(s).port = 25

\* C19: one signing context is made for a message and every delivery of the
\* message signs with it; its signing domain is the domain of the envelope
\* sender of the message.
C19_OneSignerPerMessage ==
  \A s \in SessionIds :
    Grouped(s) =>
      /\ Len(h[s].dkimSigner) = 1
      /\ h[s].dkimSigner[1].domainName = DomainAfterAt(h[s].from)
      /\ \A i \in 1..Len(attempts[s]) :
           attempts[s][i].state # "resolving" => attempts[s][i].dkim = h[s].dkimSigner

C19_Witness ==
  \E s \in SessionIds :
    /\ Completed(s) /\ Len(attempts[s]) = 2
    /\ attempts[s][1].domain # attempts[s][2].domain
    /\ attempts[s][1].dkim # <<>>
    /\ attempts[s][1].dkim = attempts[s][2].dkim

\* id is of the form <...@configured-domain>
GeneratedForm(id) ==
  LET suffix == <<"@">> \o ConfigDomain \o <<">">>
  IN  /\ Len(id) >= Len(suffix) + 1
      /\ id[1] = "<"
      /\ SubSeq(id, Len(id) - Len(suffix) + 1, Len(id)) = suffix

\* C20: the message identifier of a delivery is never empty: it is the
\* parsed message-id where the message has one, and otherwise a generated
\* identifier of the form <...@configured-domain>; every delivery of the
\* message carries the same identifier.
C20_MessageId ==
  \A s \in SessionIds :
    Grouped(s) =>
      /\ h[s].messageId # <<>>
      /\ h[s].parsedMessageId # <<>> => h[s].messageId = h[s].parsedMessageId
      /\ h[s].parsedMessageId = <<>> => GeneratedForm(h[s].messageId)
      /\ \A i \in 1..Len(attempts[s]) : attempts[s][i].messageId = h[s].messageId

C20_Witness ==
  \E s \in SessionIds :
    /\ Completed(s) /\ Len(attempts[s]) = 2
    /\ h[s].parsedMessageId # <<>>
    /\ ~GeneratedForm(h[s].messageId)
    /\ attempts[s][1].messageId = h[s].parsedMessageId
    /\ attempts[s][2].messageId = h[s].parsedMessageId

\* the recipients of all deliveries of the message of s, in the order of the
\* deliveries
RECURSIVE SubmittedIn(_)
SubmittedIn(history) ==
  IF history = <<>> THEN <<>>
  ELSE Head(history).envelope.to \o SubmittedIn(Tail(history))

\* C21: the delivery envelope is the session's: every delivery has the MAIL
\* FROM address as its sender, and the recipients of all deliveries of a
\* message together are the RCPT TO addresses, each as often as it was given,
\* whatever headers the message has.
C21_EnvelopeFromSession ==
  \A s \in SessionIds :
    Completed(s) =>
      /\ \A i \in 1..Len(attempts[s]) :
           <<attempts[s][i].envelope.from>> = envelope[s].mailFrom
      /\ \A i \in 1..Len(envelope[s].rcptTo) :
           Occurrences(SubmittedIn(attempts[s]), envelope[s].rcptTo[i])
             = Occurrences(envelope[s].rcptTo, envelope[s].rcptTo[i])
      /\ \A i \in 1..Len(SubmittedIn(attempts[s])) :
           Occurrences(envelope[s].rcptTo, SubmittedIn(attempts[s])[i]) > 0

\* the deliveries of s that have been started and have not returned
InFlight(s) == AttemptsIn(s, "resolving") \cup AttemptsIn(s, "sending")

\* C22: the deliveries of a message to distinct domains run concurrently, none
\* waiting for another: once the groups are computed every group has its
\* delivery started, so that with two groups or more one delivery is in
\* flight while another has not returned. Stated for recipients that all
\* have a domain.
C22_ConcurrentAttempts ==
  \A s \in SessionIds :
    (Grouped(s) /\ AllHaveDomain(h[s].recipients)) =>
      /\ Len(attempts[s]) = Len(h[s].keys)
      /\ (pc[s] # "done" /\ Len(h[s].keys) >= 2 /\ AttemptsIn(s, "ok") = {}
            /\ AttemptsIn(s, "failed") = {}) => Cardinality(InFlight(s)) >= 2

\* every group of s other than the slow domain's has had its delivery return
OthersReturned(s) ==
  \A k \in 1..Len(h[s].keys) :
    h[s].keys[k] # SlowDomain =>
      \E i \in 1..Len(attempts[s]) :
        /\ attempts[s][i].domain = h[s].keys[k]
        /\ attempts[s][i].state \in {"ok", "failed"}

\* C23: a domain whose delivery never returns does not stall the others:
\* once the groups of a message are computed, the deliveries to all its other
\* domains are started and return.
C23_SlowDomainDoesNotStall ==
  \A s \in SessionIds : Grouped(s) ~> OthersReturned(s)

\* C24: a delivery that was started before the inbound connection was closed
\* is not cancelled or dropped by the close: it stays in flight until it
\* returns, and it returns with a success or a failure that is recorded in
\* the results.
C24_InFlightSurvivesClose ==
  \A s \in SessionIds : \A i \in 1..Len(attempts[s]) :
    LET a == attempts[s][i]
    IN  (conn[s] = "closed" /\ ~a.closed) =>
          /\ a.state \in {"resolving", "sending", "ok", "failed"}
          /\ a.state \in {"resolving", "sending"} =>
               i = Len(attempts[s]) /\ pc[s] = a.state
          /\ a.state = "ok" => a.domain \in SuccessDomains(s)
          /\ a.state = "failed" => a.domain \in FailedDomains(s)

C24_Witness ==
  \E s \in SessionIds :
    /\ conn[s] = "closed" /\ Len(attempts[s]) = 2
    /\ ~attempts[s][1].closed /\ attempts[s][1].state = "ok"
    /\ attempts[s][2].closed

\* C25: no delivery of a message is started after the inbound connection of
\* its session has been closed.
C25_NoAttemptAfterClose ==
  \A s \in SessionIds : \A i \in 1..Len(attempts[s]) : ~attempts[s][i].closed

\* C26: a message that cannot be parsed is rejected with the fixed error
\* 'Error processing message', whatever the parse error was, and no delivery
\* is started for it.
C26_ParseFailureIsGeneric ==
  \A s \in SessionIds :
    (pc[s] = "done" /\ h[s].caught \in ParseErrors) =>
      /\ cb[s] = [count |-> 1,
                  err |-> <<[message |-> <<"Error processing message">>,
                             deliveryResults |-> <<>>]>>]
      /\ attempts[s] = <<>>
      /\ h[s].results = NoResults

C26_Witness ==
  \E s \in SessionIds :
    /\ pc[s] = "done" /\ h[s].caught = "Unexpected end of input"
    /\ Rejected(s)
    /\ envelope[s].rcptTo # <<>>

\* the i-th delivery of s met an error: its MX lookup failed or its send did
MetError(s, i) == attempts[s][i].mxFailed \/ attempts[s][i].error # ""

\* C27 as stated: every error raised while a message is processed (parsing,
\* address extraction, grouping, MX lookup, transport send) ends in a
\* failure entry for its domain or in a rejection of the message.
C27_EveryErrorSurfaces ==
  \A s \in SessionIds :
    pc[s] = "done" =>
      /\ h[s].caught # "" => Rejected(s)
      /\ \A i \in 1..Len(attempts[s]) :
           MetError(s, i) => (attempts[s][i].domain \in FailedDomains(s) \/ Rejected(s))

\* C27 as amended: an error of parsing, address extraction or grouping ends
\* in a rejection of the message, an error of a send in a failure entry for
\* its domain and a rejection; a failed MX lookup ends in neither by itself:
\* the delivery goes on to the fallback target and its outcome decides. The
\* handler always ends with its callback called.
C27_ErrorsAreContained ==
  \A s \in SessionIds :
    /\ pc[s] \in {"idle", "receiving", "parsing", "resolving", "sending", "done"}
    /\ pc[s] = "done" =>
         /\ cb[s].count = 1
         /\ h[s].caught # "" => (Rejected(s) /\ attempts[s] = <<>>)
         /\ \A i \in 1..Len(attempts[s]) :
              /\ attempts[s][i].error # "" =>
                   /\ Rejected(s)
                   /\ \E f \in 1..Len(h[s].results.failed) :
                        h[s].results.failed[f] = [domain |-> attempts[s][i].domain,
                                                  error |-> attempts[s][i].error]
              /\ attempts[s][i].mxFailed =>
                   /\ attempts[s][i].host = attempts[s][i].domain
                   /\ attempts[s][i].state \in {"ok", "failed"}
                   /\ attempts[s][i].state = "ok" =>
                        attempts[s][i].domain \notin FailedDomains(s)

C27_Witness ==
  \E s \in SessionIds :
    /\ pc[s] = "done" /\ h[s].caught = NoPush
    /\ Rejected(s)
    /\ Len(h[s].recipients) >= 2

\* the header of this key is one the handler sets itself
IsReplaced(key) ==
  \E name \in {"from", "to", "cc", "bcc", "subject", "message-id"} :
    /\ Len(key) = Len(name)
    /\ ToLowerCase(key) = [i \in 1..Len(key) |-> SubSeq(name, i, i)]

\* the places of the header lines that are to be forwarded
KeptPlaces(headerLines) == {i \in 1..Len(headerLines) : ~IsReplaced(headerLines[i].key)}

\* C28: the forwarded headers are the original header lines whose key is, in
\* any letter case, none of from, to, cc, bcc, subject, message-id, each once
\* and in the original order; none of those six is forwarded.
C28_ForwardedHeaders ==
  (probe.fn = "headers" /\ probe.done) =>
    LET kept == KeptPlaces(probe.headerLines)
    IN  /\ Len(probe.out) = Cardinality(kept)
        /\ \A k \in 1..Len(probe.out) : ~IsReplaced(probe.out[k].key)
        /\ \A i \in kept :
             LET k == Cardinality({j \in kept : j <= i})
             IN  /\ probe.out[k].key = probe.headerLines[i].key
                 /\ probe.out[k].value = probe.headerLines[i].line

C28_Witness ==
  /\ probe.fn = "headers" /\ probe.done
  /\ Len(probe.headerLines) = 3 /\ Len(probe.out) = 2
  /\ probe.headerLines[2].key = <<"C", "c">>
  /\ probe.out[1].value = "X-To: 2" /\ probe.out[2].value = "X-A: 1"

\* the phase of the message of s: nothing (0), Received (1), being parsed
\* (2), Parsed and Grouped and Delivering (3), Completed (4)
PhaseOf(p) ==
  CASE p = "idle" -> 0
    [] p = "receiving" -> 1
    [] p = "parsing" -> 2
    [] p \in {"resolving", "sending"} -> 3
    [] p = "done" -> 4

\* every group of s has a delivery, and every delivery of s has returned
AllReturned(s) ==
  /\ Len(attempts[s]) = Len(h[s].keys)
  /\ \A i \in 1..Len(attempts[s]) : attempts[s][i].state \in {"ok", "failed"}

\* C29: a message goes through Received, Parsed, Grouped, Delivering and
\* Completed in that order, never back and never past a phase other than by
\* a rejection before delivery or by having no group: a delivery is started
\* only when the stream has ended, the message is parsed and the groups are
\* computed, and the response for a parsed message is given only when all
\* its deliveries have returned.
C29_PhaseOrder ==
  [][\A s \in SessionIds :
       /\ pc'[s] # pc[s] =>
            \/ PhaseOf(pc'[s]) = PhaseOf(pc[s]) + 1
            \/ PhaseOf(pc[s]) = 3 /\ PhaseOf(pc'[s]) = 3
            \/ PhaseOf(pc[s]) = 2 /\ PhaseOf(pc'[s]) = 4
                 /\ (h'[s].caught # "" \/ h'[s].keys = <<>>)
            \/ PhaseOf(pc[s]) = 4 /\ PhaseOf(pc'[s]) = 0
       /\ Len(attempts'[s]) > Len(attempts[s]) =>
            /\ PhaseOf(pc[s]) \in {2, 3} /\ PhaseOf(pc'[s]) = 3
            /\ h'[s].keys = GroupKeys(h'[s].recipientGroups)
            /\ h'[s].recipientGroups = GroupRecipients(h'[s].recipients)
            /\ Len(attempts'[s]) = Len(attempts[s]) + 1
            /\ \A i \in 1..Len(attempts[s]) : attempts'[s][i].state \in {"ok", "failed"}
       /\ cb'[s].count > cb[s].count =>
            /\ pc'[s] = "done"
            /\ h'[s].caught = "" =>
                 /\ Len(attempts'[s]) = Len(h'[s].keys)
                 /\ \A i \in 1..Len(attempts'[s]) :
                      attempts'[s][i].state \in {"ok", "failed"}
    ]_vars

C29_Witness ==
  \E s \in SessionIds :
    /\ Completed(s) /\ cb[s].count = 1
    /\ Len(h[s].keys) = 3 /\ AllReturned(s)
    /\ attempts[s][2].state = "failed"

\* the objects the i-th delivery of s refers to
ObjectsOf(s, i) ==
  {attempts[s][i].refs[f] : f \in DOMAIN attempts[s][i].refs} \ {NoObject}

\* the i-th delivery of s has made its transport
HasTransport(s, i) == attempts[s][i].state \in {"sending", "ok", "failed"}

NoAtRecipients(s) ==
  {i \in 1..Len(h[s].recipients) : ~Contains(h[s].recipients[i].address, "@")}

\* C33: a recipient address without an '@' is not rejected: its domain is
\* empty, it forms a group of its own whose key is the empty string, and the
\* message goes on to a delivery for that group.
C33_EmptyDomainGroup ==
  \A s \in SessionIds :
    (Grouped(s) /\ NoAtRecipients(s) # {}) =>
      /\ \E g \in 1..Len(h[s].recipientGroups) :
           /\ h[s].recipientGroups[g].domain = <<>>
           /\ \A i \in NoAtRecipients(s) :
                \E m \in 1..Len(h[s].recipientGroups[g].members) :
                  h[s].recipientGroups[g].members[m] = h[s].recipients[i]
      /\ Completed(s) => \E a \in 1..Len(attempts[s]) : attempts[s][a].domain = <<>>


\* C34: for every data stream that has ended, the handler calls the callback
\* exactly once, whichever way it goes (parse failure, exception while
\* grouping, no failure, some failures, only failures): no call is made
\* while the handler is still at work, one call has been made when it is
\* over, and never a second one.
C34_CallbackExactlyOnce ==
  \A s \in SessionIds :
    /\ cb[s].count <= 1
    /\ pc[s] \in {"idle", "receiving", "parsing", "resolving", "sending"} => cb[s].count = 0
    /\ pc[s] = "done" => cb[s].count = 1

\* a message with two deliveries, one failed and one not, has been answered
C34_Witness ==
  \E s \in SessionIds :
    /\ pc[s] = "done" /\ cb[s].count = 1
    /\ AttemptsIn(s, "ok") # {} /\ AttemptsIn(s, "failed") # {}

\* C35: a message whose recipient list yields no recipient group is accepted
\* without any delivery attempt: when the grouping ends with no group, no
\* delivery is started and the callback is called once, without an error.
C35_NoGroupIsAccepted ==
  (probe.fn = "relay" /\ probe.done /\ ~probe.out.threw /\ probe.out.groups = <<>>) =>
     /\ probe.out.attempts = <<>>
     /\ probe.out.cb = [count |-> 1, err |-> NoError]

\* the handler was given an empty recipient list
C35_Witness ==
  /\ probe.fn = "relay" /\ probe.done
  /\ probe.recipients = <<>>
  /\ probe.out.groups = <<>> /\ ~probe.out.threw

\* the place of a domain in a list of domains
PlaceIn(order, domain) == CHOOSE i \in 1..Len(order) : order[i] = domain

\* the domains of list, each one of order, stand in list as they do in order
KeepsOrder(list, order) ==
  /\ \A i \in 1..Len(list) : \E k \in 1..Len(order) : order[k] = list[i]
  /\ \A i \in 1..Len(list) : \A j \in (i + 1)..Len(list) :
       PlaceIn(order, list[i]) < PlaceIn(order, list[j])

\* the deliveries of s follow order, and so do both result lists
DeliveriesFollow(s, order) ==
  /\ Len(attempts[s]) <= Len(order)
  /\ \A i \in 1..Len(attempts[s]) : attempts[s][i].domain = order[i]
  /\ KeepsOrder(h[s].results.success, order)
  /\ KeepsOrder([i \in 1..Len(h[s].results.failed) |-> h[s].results.failed[i].domain], order)

\* C36: the deliveries of a message are started in the order of its recipient
\* groups (the order in which the groups were formed, see C14), and the
\* success list and the failure list each hold their domains in that order.
C36_DeliveriesInGroupOrder ==
  \A s \in SessionIds :
    Grouped(s) =>
      DeliveriesFollow(s, [g \in 1..Len(h[s].recipientGroups) |->
                             h[s].recipientGroups[g].domain])

\* the domains of the accepted RCPT TO addresses of s
OwnDomains(s) ==
  {DomainAfterAt(envelope[s].rcptTo[i]) : i \in 1..Len(envelope[s].rcptTo)}

RECURSIVE OwnResultsOf(_)
OwnResultsOf(history) ==
  IF history = <<>> THEN NoResults
  ELSE LET a == history[Len(history)]
           before == OwnResultsOf(SubSeq(history, 1, Len(history) - 1))
       IN  CASE a.state = "ok" -> [before EXCEPT !.success = Append(@, a.domain)]
             [] a.state = "failed" ->
                  [before EXCEPT !.failed = Append(@, [domain |-> a.domain, error |-> a.error])]
             [] OTHER -> before

\* C31: sessions are independent under any interleaving of their handlers:
\* the success list and the failure list of a session hold only domains of
\* its own recipients, they record the outcomes of its own deliveries and
\* nothing else, and its response is the one these outcomes alone determine.
C31_SessionsIndependent ==
  \A s \in SessionIds :
    Grouped(s) =>
      /\ SuccessDomains(s) \cup FailedDomains(s) \subseteq OwnDomains(s)
      /\ h[s].results = OwnResultsOf(attempts[s])
      /\ (pc[s] = "done" /\ h[s].caught = "") =>
            cb[s].err = FinalResponse(OwnResultsOf(attempts[s]))

\* one session is accepted after a success while the other, still at work,
\* has a failure in its list
C31_Witness ==
  \E s, t \in SessionIds :
    /\ s # t
    /\ pc[s] = "done" /\ Accepted(s) /\ Len(h[s].results.success) > 0
    /\ pc[t] = "resolving" /\ Len(h[t].results.failed) > 0

\* C32: on a termination signal the listener is asked to close, and the
\* process exits with status 0 only after the close has completed: while
\* the close is pending the process has not exited.
C32_ExitAfterClose ==
  /\ (cli.handlers /\ cli.signals > 0) => cli.server \in {"closing", "closed"}
  /\ cli.server = "closing" => (cli.at = "stopping" /\ cli.exitCode = "")
  /\ cli.exitCode = "0" => (cli.server = "closed" /\ cli.signals > 0)

\* the process has exited with status 0 after two signals
C32_Witness ==
  cli.at = "exited" /\ cli.exitCode = "0" /\ cli.signals = 2 /\ cli.server = "closed"

\* C37: with TINKSES_STRICT_DNS_CHECK set to 'true', a failed verification
\* of SPF, DKIM or DMARC aborts the start: the process exits with status 1
\* and the SMTP server is never created or started.
C37_StrictDnsAborts ==
  (cli.strict = "true" /\ cli.dns # <<>>
     /\ ~(cli.dns[1].spf /\ cli.dns[1].dkim /\ cli.dns[1].dmarc)) =>
       cli.exitCode = "1" /\ cli.server = "none"

TxtRecords(txt) == [r \in 1..Len(txt.records) |-> Join(txt.records[r], <<>>)]

\* the domain publishes an SPF record that lists every one of ips as a
\* mechanism of its own
PublishesAll(txt, ips) ==
  /\ txt.error = ""
  /\ \E r \in 1..Len(txt.records) :
       LET record == TxtRecords(txt)[r]
           terms == Split(record, " ")
       IN  /\ StartsWith(record, <<"v", "=", "s", "p", "f", "1">>)
           /\ \A i \in 1..Len(ips) : \E t \in 1..Len(terms) : terms[t] = SpfEntry(ips[i])

\* C38: verifySpfRecord reports valid if and only if the domain publishes a
\* TXT record that starts with 'v=spf1' and lists every configured IP as a
\* mechanism of its own, ip6:<ip> for an IP with a ':' and ip4:<ip>
\* otherwise: the record of generateSpfRecord for a list is valid for that
\* list, and a record that lacks a configured IP is invalid.
C38_SpfValidIffAllListed ==
  (probe.fn = "verifySpfRecord" /\ probe.done) =>
     (probe.out.isValid <=> PublishesAll(probe.txt, probe.ips))

\* the result that the first event of a test stands for
SettledAs(t) ==
  CASE t.events[1] = "connect" -> t.promise[1].success /\ t.promise[1].error = ""
    [] t.events[1] = "error" -> ~t.promise[1].success /\ t.promise[1].error \in SocketErrors
    [] t.events[1] = "timeout" ->
         ~t.promise[1].success /\ t.promise[1].error = "Connection timed out after 5000ms"

TestsAreSound ==
  /\ \A i \in 1..Len(tests.test) :
       LET t == tests.test[i]
       IN  /\ t.host = tests.providers[i]
           /\ (t.promise = <<>>) <=> (t.events = <<>>)
           /\ t.promise # <<>> => (t.promise[1].host = t.host /\ SettledAs(t))
           /\ \A e \in 2..Len(t.events) : t.events[e] # "timeout"
  /\ tests.returned # <<>> =>
       /\ Len(tests.returned[1]) = Len(tests.providers)
       /\ \A i \in 1..Len(tests.providers) :
            /\ tests.returned[1][i].host = tests.providers[i]
            /\ tests.returned[1][i] = tests.test[i].promise[1]

\* C40: testSmtpConnections always terminates and returns exactly one result
\* per provider, in the order of the providers: each test is settled once,
\* by its first event, as a success on connect, as a failure on a socket
\* error, or as a timeout failure when the host does not answer, and a
\* later event changes nothing; so a host that never answers does not hold
\* back the results of the others.
C40_TestsTerminate == []TestsAreSound /\ <>(tests.returned # <<>>)

\* three providers of which the first never answered, the second connected
\* and then had a socket error, and the third refused
C40_Witness ==
  /\ tests.returned # <<>> /\ Len(tests.providers) = 3
  /\ tests.test[1].events = <<"timeout">>
  /\ tests.test[2].events = <<"connect", "error">> /\ tests.returned[1][2].success
  /\ tests.test[3].events = <<"error">>

====
